---- MODULE Spec2Model ----
(***************************************************************************)
(* A model of the toonstream-api scrapers: the content detail scraper      *)
(* (scrapeAnimeDetails), the episode streaming resolver                    *)
(* (scrapeEpisodeStreaming / scrapeWithFetch) and the GET /embed/:id       *)
(* handler with its candidate race.                                        *)
(*                                                                         *)
(* Strings whose inner structure the code inspects are modelled as tuples: *)
(* an id is a tuple of characters, an error message a tuple of text        *)
(* fragments, a cache key a tuple of its colon-separated parts.            *)
(***************************************************************************)
EXTENDS Integers, Sequences, FiniteSets, TLC

VARIABLES
    cache,          \* the process-wide key -> value store behind getCache/setCache
    dpc,            \* scrapeAnimeDetails: position of the call
    dcaller,        \* scrapeAnimeDetails: who awaits the call ("client" or "embed")
    did,            \* scrapeAnimeDetails: argument id
    dtype,          \* scrapeAnimeDetails: argument type
    detectedType,   \* scrapeAnimeDetails: local detectedType
    html,           \* scrapeAnimeDetails: local html
    url,            \* scrapeAnimeDetails: local url
    lastError,      \* scrapeAnimeDetails: local lastError of the auto-detect loop
    tryIdx,         \* scrapeAnimeDetails: index of tryType in types
    dfetches,       \* scrapeAnimeDetails: urls passed to fetchPage by the current call, in order
    dlog,           \* scrapeAnimeDetails: outcome of each of those fetches, in order
    dresult,        \* scrapeAnimeDetails: value returned or error thrown by the call
    spc,            \* scrapeEpisodeStreaming: position of the call
    scaller,        \* scrapeEpisodeStreaming: who awaits the call ("client" or "embed")
    sid,            \* scrapeEpisodeStreaming: argument episodeId
    sfetches,       \* scrapeWithFetch: urls passed to fetchPage by the current call, in order
    slog,           \* scrapeWithFetch: outcome of each of those fetches, in order
    snav,           \* scrapeWithBrowser: its locals and the attempt of the goto it awaits
    sresult,        \* scrapeEpisodeStreaming: value returned or error thrown by the call
    epc,            \* GET /embed/:id: position of the handler
    eid,            \* GET /embed/:id: path parameter id
    etype,          \* GET /embed/:id: query parameter type, 'auto' when absent
    contentType,    \* GET /embed/:id: local contentType
    iframeSrc,      \* GET /embed/:id: local iframeSrc
    cand,           \* GET /embed/:id: the promises of activeSources.map(fetchSource)
    eresp,          \* GET /embed/:id: the response sent
    input,          \* a parsed document handed to one of the extraction functions
    applied,        \* the extraction function that was applied to it, "none" before
    output,         \* what that function returned
    locked,         \* MutexLock: locked
    queue,          \* MutexLock: queue, the tryAcquire closures of the waiting acquire() calls
    browser,        \* ToonStreamBrowser: browser ("null", or the state of the browser object)
    context,        \* ToonStreamBrowser: context ("null", "open" or "closed")
    isConnected,    \* ToonStreamBrowser: isConnected
    bpc,            \* position of each caller of the browser manager
    retryCount,     \* createPage: retryCount of each caller
    heldContext,    \* the context launch() returned to each caller ("none", "open" or "closed")
    browserInstance \* whether the module holds a manager (browserInstance is not null)

dvars == <<dpc, dcaller, did, dtype, detectedType, html, url, lastError, tryIdx,
           dfetches, dlog, dresult>>

svars == <<spc, scaller, sid, sfetches, slog, snav, sresult>>

evars == <<epc, eid, etype, contentType, iframeSrc, cand, eresp>>

fvars == <<input, applied, output>>

bvars == <<locked, queue, browser, context, isConnected, bpc, retryCount, heldContext,
          browserInstance>>

vars == <<cache, dvars, svars, evars, fvars, bvars>>

(***************************************************************************)
(* Values                                                                  *)
(***************************************************************************)

\* JavaScript undefined / null for a variable that otherwise holds an object
Undefined == [undefined |-> TRUE]

IsUndefined(v) == "undefined" \in DOMAIN v

\* no document under extraction
NoDocument == [none |-> TRUE]

\* JavaScript null for the type argument (a string otherwise)
NullType == "<null>"

\* the two content ids of the model, as character tuples
IdShow1x1 == <<"s", "h", "o", "w", "-", "1", "x", "1">>

IdShow == <<"s", "h", "o", "w">>

Ids == {IdShow1x1, IdShow}

\* the id the detail scraper is called with
DetailIds == {IdShow}

\* the values of the type argument: absent, the three documented hints, and
\* the 'auto' the embed route passes
TypeArgs == {NullType, "series", "movie", "cartoon", "auto"}

\* Bodies of detail pages: the empty body and a document
DetailPages == {[raw |-> ""], [raw |-> "docA"]}

\* What the upstream site can answer to one request: a status with a body, or
\* no answer at all (the client's timeout fires)
Responses(pages) ==
    {[kind |-> "http", status |-> 200, data |-> p] : p \in pages}
        \cup {[kind |-> "http", status |-> s, data |-> [raw |-> ""]] : s \in {403, 404}}
        \cup {[kind |-> "network", status |-> 0, data |-> [raw |-> ""]]}

\* String.prototype.includes on a message made of fragments
Includes(message, fragment) == \E i \in 1..Len(message) : message[i] = fragment

\* truthiness of a string-or-null type value
TruthyType(t) == t # NullType /\ t # ""

\* truthiness of an html body held in a variable
TruthyHtml(h) == ~IsUndefined(h) /\ h.raw # ""

(***************************************************************************)
(* utils/scraper.js                                                        *)
(***************************************************************************)

\* fetchPage: the page body, or an Error whose message starts with
\* 'Failed to fetch page: '
fetchPage(resp) ==
    IF resp.kind = "network"
    THEN [ok |-> FALSE, html |-> Undefined,
          message |-> <<"Failed to fetch page: ", "timeout", " of 30000ms exceeded">>]
    ELSE IF resp.status = 403
    THEN [ok |-> FALSE, html |-> Undefined,
          message |-> <<"Failed to fetch page: ", "Access denied (403). The website may be blocking automated requests.">>]
    ELSE IF resp.status >= 400
    THEN [ok |-> FALSE, html |-> Undefined,
          message |-> <<"Failed to fetch page: ", "HTTP error! status: ", ToString(resp.status)>>]
    ELSE [ok |-> TRUE, html |-> resp.data, message |-> <<>>]

(***************************************************************************)
(* utils/cache.js                                                          *)
(***************************************************************************)

ContentKey(id, type) == <<"content", id, IF TruthyType(type) THEN type ELSE "auto">>

ContentKeys == {ContentKey(i, t) : i \in Ids, t \in TypeArgs}

EpisodeKey(episodeId) == <<"episode", episodeId>>

EpisodeKeys == {EpisodeKey(i) : i \in Ids}

ListingKeys == {<<"category", "action", "1">>, <<"search", "naruto", "1">>, <<"home">>}

CacheKeys ==
    ContentKeys \cup EpisodeKeys \cup {<<"embed", i, t>> : i \in Ids, t \in {"auto", "movie"}}
        \cup ListingKeys

\* getCache(key): the stored value, or undefined
getCache(c, key) == c[key]

\* setCache(key, value, ttl): the store after the call
setCache(c, key, value) == [c EXCEPT ![key] = value]

\* an absent url, and the falsy empty string
NoUrl == <<>>

NoResponse == [kind |-> "none"]

\* the entry of a key reaches its time to live
CacheExpire(key) ==
    /\ ~IsUndefined(cache[key])
    /\ cache' = [cache EXCEPT ![key] = Undefined]
    /\ UNCHANGED <<dvars, svars, evars, fvars, bvars>>

(***************************************************************************)
(* scrapers/anime.js: scrapeAnimeDetails(id, type = null)                  *)
(***************************************************************************)

typesSwapped == <<"movies", "series", "cartoons">>

\* const types = ['series', 'movies', 'cartoons']
types == <<"series", "movies", "cartoons">>

IsNotFoundAlways(message) == TRUE

\* error.message.includes('404')
IsNotFound(message) == Includes(message, "404")

CacheHitNever(cached) == FALSE

\* if (cached)
CacheHit(cached) == ~IsUndefined(cached)

PageUrl(shape, id) == [shape |-> shape, id |-> id]

\* the url chosen for a supplied type
HintUrl(id, type) ==
    IF type = "series" THEN PageUrl("series", id)
    ELSE IF type = "movie" THEN PageUrl("movies", id)
    ELSE IF type = "cartoon" THEN PageUrl("cartoons", id)
    ELSE PageUrl("series", id)

\* detectedType = tryType === 'movies' ? 'movie' : tryType
DetectedOf(tryType) == IF tryType = "movies" THEN "movie" ELSE tryType

\* the url field of the result
DataUrl(id, dt) ==
    PageUrl(IF dt = "movie" THEN "movies" ELSE IF dt = "cartoon" THEN "cartoons" ELSE "series", id)

\* the object built from a fetched page
DetailData(id, dt, h) ==
    [success |-> TRUE, id |-> id, type |-> dt, doc |-> h.raw, url |-> DataUrl(id, dt)]

Returned(v) == [ok |-> TRUE, value |-> v, message |-> <<>>]

Thrown(message) == [ok |-> FALSE, value |-> Undefined, message |-> message]

NoResult == [ok |-> FALSE, value |-> Undefined, message |-> <<"<pending>">>]

\* the outer catch: throw new Error(`Failed to scrape content details: ${error.message}`)
DetailWrap(message) == <<"Failed to scrape content details: ">> \o message

NotFoundMessage(id) == <<"Content not found: ", id, " (tried: series, movies, cartoons)">>

\* the call up to its first await: the cache lookup, then the first fetchPage
\* is issued
DetailCall(id, type, caller) ==
    /\ dpc = "idle"
    /\ did' = id
    /\ dtype' = type
    /\ dcaller' = caller
    /\ dfetches' = <<>>
    /\ dlog' = <<>>
    /\ lastError' = Undefined
    /\ html' = Undefined
    /\ LET cached == getCache(cache, ContentKey(id, type)) IN
        IF CacheHit(cached)
        THEN /\ dpc' = "done"
             /\ dresult' = Returned(cached)
             /\ detectedType' = type
             /\ url' = Undefined
             /\ tryIdx' = 0
        ELSE /\ dresult' = NoResult
             /\ detectedType' = type
             /\ IF TruthyType(type)
                THEN /\ dpc' = "hint"
                     /\ url' = HintUrl(id, type)
                     /\ tryIdx' = 0
                ELSE /\ dpc' = "probe"
                     /\ url' = PageUrl(types[1], id)
                     /\ tryIdx' = 1
    /\ UNCHANGED cache

\* the end of the try block: build data, setCache, return
DetailFinish(dt, h) ==
    /\ dpc' = "done"
    /\ dresult' = Returned(DetailData(did, dt, h))
    /\ cache' = setCache(cache, ContentKey(did, dtype), DetailData(did, dt, h))

DetailFailCaching(message) ==
    /\ dpc' = "done"
    /\ dresult' = Thrown(DetailWrap(message))
    /\ cache' = setCache(cache, ContentKey(did, dtype), [success |-> FALSE])

\* an error thrown inside the try block reaches the outer catch
DetailFail(message) ==
    /\ dpc' = "done"
    /\ dresult' = Thrown(DetailWrap(message))
    /\ UNCHANGED cache

\* the fetch of the supplied type's url completes
DetailHintFetched(resp) ==
    /\ dpc = "hint"
    /\ dfetches' = Append(dfetches, url)
    /\ dlog' = Append(dlog, resp)
    /\ LET r == fetchPage(resp) IN
        IF r.ok
        THEN /\ html' = r.html
             /\ IF ~TruthyType(detectedType) \/ ~TruthyHtml(r.html)
                THEN /\ dpc' = "probe"
                     /\ tryIdx' = 1
                     /\ url' = PageUrl(types[1], did)
                     /\ UNCHANGED <<detectedType, lastError, dresult, cache>>
                ELSE /\ DetailFinish(detectedType, r.html)
                     /\ UNCHANGED <<detectedType, lastError, tryIdx, url>>
        ELSE IF IsNotFound(r.message)
        THEN /\ detectedType' = NullType
             /\ dpc' = "probe"
             /\ tryIdx' = 1
             /\ url' = PageUrl(types[1], did)
             /\ UNCHANGED <<html, lastError, dresult, cache>>
        ELSE /\ DetailFail(r.message)
             /\ UNCHANGED <<detectedType, html, lastError, tryIdx, url>>
    /\ UNCHANGED <<did, dtype, dcaller>>

\* one iteration of for (const tryType of types): its fetch completes
DetailProbeFetched(resp) ==
    /\ dpc = "probe"
    /\ dfetches' = Append(dfetches, url)
    /\ dlog' = Append(dlog, resp)
    /\ LET r == fetchPage(resp)
           tryType == types[tryIdx] IN
        IF r.ok
        THEN /\ html' = r.html
             /\ detectedType' = DetectedOf(tryType)
             /\ lastError' = Undefined
             /\ DetailFinish(DetectedOf(tryType), r.html)
             /\ UNCHANGED <<tryIdx, url>>
        ELSE /\ lastError' = [message |-> r.message]
             /\ IF ~IsNotFound(r.message)
                THEN /\ DetailFail(r.message)
                     /\ UNCHANGED <<detectedType, html, tryIdx, url>>
                ELSE IF tryIdx < Len(types)
                THEN /\ tryIdx' = tryIdx + 1
                     /\ url' = PageUrl(types[tryIdx + 1], did)
                     /\ UNCHANGED <<dpc, detectedType, html, dresult, cache>>
                ELSE /\ DetailFail(NotFoundMessage(did))
                     /\ UNCHANGED <<detectedType, html, tryIdx, url>>
    /\ UNCHANGED <<did, dtype, dcaller>>

\* the locals of a call that is not running
DetailIdle ==
    /\ dpc = "idle"
    /\ dcaller = "client"
    /\ did = IdShow
    /\ dtype = NullType
    /\ detectedType = NullType
    /\ html = Undefined
    /\ url = Undefined
    /\ lastError = Undefined
    /\ tryIdx = 0
    /\ dfetches = <<>>
    /\ dlog = <<>>
    /\ dresult = NoResult

\* the frame of a finished call is gone
DetailFrameGone ==
    /\ dpc' = "idle"
    /\ dcaller' = "client"
    /\ did' = IdShow
    /\ dtype' = NullType
    /\ detectedType' = NullType
    /\ html' = Undefined
    /\ url' = Undefined
    /\ lastError' = Undefined
    /\ tryIdx' = 0
    /\ dfetches' = <<>>
    /\ dlog' = <<>>
    /\ dresult' = NoResult

\* the caller takes the result of the finished call
DetailReturn ==
    /\ dpc = "done"
    /\ dcaller = "client"
    /\ DetailFrameGone
    /\ UNCHANGED cache

(***************************************************************************)
(* Strings as character tuples: the regular expressions of the resolvers   *)
(***************************************************************************)

Digits == {"0", "1", "2", "3", "4", "5", "6", "7", "8", "9"}

IsDigit(c) == c \in Digits

DigitVal(c) ==
    CASE c = "0" -> 0 [] c = "1" -> 1 [] c = "2" -> 2 [] c = "3" -> 3 [] c = "4" -> 4
      [] c = "5" -> 5 [] c = "6" -> 6 [] c = "7" -> 7 [] c = "8" -> 8 [] c = "9" -> 9

RECURSIVE parseInt(_)
\* parseInt of a non-empty run of decimal digits
parseInt(ds) ==
    IF Len(ds) = 0 THEN 0
    ELSE parseInt(SubSeq(ds, 1, Len(ds) - 1)) * 10 + DigitVal(ds[Len(ds)])

\* JavaScript null for season and episode (an integer otherwise)
NullNum == -1

\* the last position of the run of digits that starts at position i
DigitRunEnd(str, i) ==
    CHOOSE j \in i..Len(str) :
        /\ \A k \in i..j : IsDigit(str[k])
        /\ (j = Len(str) \/ ~IsDigit(str[j + 1]))

\* (\d+)x(\d+) matches at position i; \d+ is greedy and giving digits back
\* never lets the x match
SxEMatchesAt(str, i) ==
    /\ i \in 1..Len(str)
    /\ IsDigit(str[i])
    /\ LET j == DigitRunEnd(str, i) IN
        /\ j + 2 <= Len(str)
        /\ str[j + 1] = "x"
        /\ IsDigit(str[j + 2])

\* the two groups of (\d+)x(\d+) matched at position i, and where the match ends
SxEGroups(str, i) ==
    LET j == DigitRunEnd(str, i)
        k == DigitRunEnd(str, j + 2) IN
    [season |-> parseInt(SubSeq(str, i, j)), episode |-> parseInt(SubSeq(str, j + 2, k)), end |-> k]

\* title.match(/(\d+)x(\d+)/): the leftmost match
MatchTitleSxE(str) ==
    IF \E i \in 1..Len(str) : SxEMatchesAt(str, i)
    THEN LET i == CHOOSE a \in 1..Len(str) :
                      /\ SxEMatchesAt(str, a)
                      /\ \A b \in 1..(a - 1) : ~SxEMatchesAt(str, b) IN
         [found |-> TRUE, season |-> SxEGroups(str, i).season, episode |-> SxEGroups(str, i).episode]
    ELSE [found |-> FALSE, season |-> NullNum, episode |-> NullNum]

\* /-(\d+)x(\d+)$/ matches with its hyphen at position i
IdSxEMatchesAt(str, i) ==
    /\ i \in 1..Len(str)
    /\ str[i] = "-"
    /\ SxEMatchesAt(str, i + 1)
    /\ SxEGroups(str, i + 1).end = Len(str)

\* episodeId.match(/-(\d+)x(\d+)$/)
MatchIdSxE(str) ==
    IF \E i \in 1..Len(str) : IdSxEMatchesAt(str, i)
    THEN LET i == CHOOSE a \in 1..Len(str) :
                      /\ IdSxEMatchesAt(str, a)
                      /\ \A b \in 1..(a - 1) : ~IdSxEMatchesAt(str, b) IN
         [found |-> TRUE, season |-> SxEGroups(str, i + 1).season, episode |-> SxEGroups(str, i + 1).episode]
    ELSE [found |-> FALSE, season |-> NullNum, episode |-> NullNum]

LooksLikeEpisodeNever(episodeId) == FALSE

\* episodeId.match(/-\d+x\d+$/)
LooksLikeEpisode(episodeId) == MatchIdSxE(episodeId).found

(***************************************************************************)
(* Urls as tuples of fragments                                             *)
(***************************************************************************)

\* url.startsWith('http')
StartsWithHttp(u) ==
    Len(u) > 0 /\ u[1] \in {"http://", "https://", "https:", "https://toonstream.love", "https://toonstream.one"}

\* url.startsWith('//')
StartsWithSlashSlash(u) == Len(u) > 0 /\ u[1] = "//"

\* url.startsWith('/')
StartsWithSlash(u) == Len(u) > 0 /\ u[1] \in {"/", "//"}

\* url.startsWith('http://')
StartsWithHttpPlain(u) == Len(u) > 0 /\ u[1] = "http://"

\* src attributes found on episode pages; <<>> is an element without the attribute
SrcDirect == <<"https://", "play.example", "/e/1">>

SrcDirectHttp == <<"http://", "cdn.example", "/e/2">>

SrcTrembed == <<"https://", "toonstream.one", "/?", "trembed", "=0">>

SrcTrembedRelative == <<"/", "?", "trembed", "=1">>

SrcTrembedSchemeless == <<"//", "toonstream.one", "/?", "trembed", "=2">>

SrcVideoRelative == <<"/", "files/ep.mp4">>

\* a player of the provider the embed route skips
SrcBlocked == <<"https://", "vidstreaming.xyz", "/e/3">>

(***************************************************************************)
(* utils/browser.js: MutexLock, ToonStreamBrowser, getBrowser,             *)
(* closeBrowser                                                            *)
(*                                                                         *)
(* Callers run concurrently on the one event loop; a step is what runs     *)
(* from the settling of one await to the next await.  An entry of the      *)
(* queue is the tryAcquire closure of one acquire() call: the caller that  *)
(* made the call, and whether the promise of the call has been settled (by *)
(* its timeout) in the meantime.  The lock and the fields are those of the *)
(* manager getBrowser() returns.                                           *)
(***************************************************************************)

\* two callers of withPage (browser-mode episode scrapes)
PageCallers == {"scrape1", "scrape2"}

\* a caller of getCookies, setCookies or clearCookies
CookieCallers == {"cookies"}

\* a caller of close() on the manager
CloseCallers == {"closer"}

\* a caller of closeBrowser()
ShutdownCallers == {"shutdown"}

BrowserCallers == PageCallers \cup CookieCallers \cup CloseCallers \cup ShutdownCallers

\* config.browser.retryAttempts
retryAttempts == 3

\* the most closures the queue of the model holds
MaxQueue == 2

\* reject(new Error('Lock acquire timeout'))
LockTimeoutMessage == <<"Lock acquire timeout">>

\* the message of a rejected chromium.launch
LaunchError == <<"browserType.launch: Failed to launch chromium">>

\* the message playwright rejects with on a closed page, context or browser
TargetClosed == <<"Target page, context or browser has been closed">>

\* the message of a page.goto that reached no server
NavError == <<"net::ERR_NAME_NOT_RESOLVED">>

Waiter(c) == [caller |-> c, settled |-> FALSE]

\* the position a caller resumes at when its acquire() resolves
Granted(c) == IF c \in CloseCallers \cup ShutdownCallers THEN "closing" ELSE "launch"

\* the position of a caller whose launch() has returned
Launched(c) == IF c \in PageCallers THEN "newPage" ELSE "cookies"

\* release(): locked = false, then the first closure of the queue, if any,
\* runs: it finds the lock free and takes it, for a call that may be settled
ReleaseLock(pcs) ==
    IF Len(queue) = 0
    THEN /\ locked' = FALSE
         /\ queue' = queue
         /\ bpc' = pcs
    ELSE /\ locked' = TRUE
         /\ queue' = Tail(queue)
         /\ bpc' = IF Head(queue).settled THEN pcs
                   ELSE [pcs EXCEPT ![Head(queue).caller] = Granted(Head(queue).caller)]

\* an acquire() that does not look at locked
AcquireLockUnchecked(c, held, waiting) ==
    /\ locked' = TRUE
    /\ queue' = queue
    /\ bpc' = [bpc EXCEPT ![c] = held]

\* acquire() by caller c, who goes on at position held when the lock is free
\* and waits at position waiting otherwise
AcquireLock(c, held, waiting) ==
    IF ~locked
    THEN /\ locked' = TRUE
         /\ queue' = queue
         /\ bpc' = [bpc EXCEPT ![c] = held]
    ELSE /\ Len(queue) < MaxQueue
         /\ queue' = Append(queue, Waiter(c))
         /\ bpc' = [bpc EXCEPT ![c] = waiting]
         /\ UNCHANGED locked

\* the timeout of a waiting acquire() fires: queue.indexOf(resolve) finds
\* nothing, the queue holds tryAcquire closures, so the closure stays queued
SettleWaiter(c) ==
    [i \in 1..Len(queue) |->
        IF queue[i].caller = c /\ ~queue[i].settled THEN [queue[i] EXCEPT !.settled = TRUE]
        ELSE queue[i]]

\* the position after a failed launch(): createPage's catch retries or gives
\* up, the cookie methods and close() let the error through
AfterFailure(c) ==
    IF c \in PageCallers /\ retryCount[c] < retryAttempts THEN "retryDelay" ELSE "idle"

\* err.message in createPage's catch, by the position the attempt failed at
CreatePageError(position) ==
    IF position \in {"acquire", "relaunch"} THEN LockTimeoutMessage
    ELSE IF position = "launch" THEN <<"Browser launch failed: ">> \o LaunchError
    ELSE IF position \in {"newContext", "initPage"} THEN <<"Browser launch failed: ">> \o TargetClosed
    ELSE TargetClosed

\* the message createPage throws when it gives up
CreatePageThrown(position) ==
    <<"Failed to create page after ", ToString(retryAttempts), " attempts: ">>
        \o CreatePageError(position)

\* the state of the context object launch() returns
ContextState == IF context = "open" /\ browser = "connected" THEN "open" ELSE "closed"

\* an open context of a manager that closeBrowser() has replaced: the close()
\* and the browser of the current manager do not reach it
OpenReplaced == "open (replaced manager)"

\* whether the context in the hands of caller c can open and navigate pages
ContextOpen(c) == heldContext[c] \in {"open", OpenReplaced}

\* the contexts the callers hold once the context of the manager is closed
ContextsClosed == [c \in BrowserCallers |-> IF heldContext[c] = "open" THEN "closed" ELSE heldContext[c]]

\* withPage(fn): getBrowser(), then createPage() calls launch(), which asks
\* for the lock
WithPageCall(c) ==
    /\ c \in PageCallers
    /\ bpc[c] = "idle"
    /\ browserInstance' = TRUE
    /\ retryCount' = [retryCount EXCEPT ![c] = 0]
    /\ AcquireLock(c, "launch", "acquire")
    /\ UNCHANGED <<browser, context, isConnected, heldContext>>

\* the retry delay of createPage is over: createPage(retryCount + 1)
CreatePageRetry(c) ==
    /\ bpc[c] = "retryDelay"
    /\ retryCount' = [retryCount EXCEPT ![c] = @ + 1]
    /\ AcquireLock(c, "launch", "acquire")
    /\ UNCHANGED <<browser, context, isConnected, heldContext, browserInstance>>

\* getCookies(url), setCookies(cookies) or clearCookies(): launch() asks for
\* the lock
CookiesCall(c) ==
    /\ c \in CookieCallers
    /\ bpc[c] = "idle"
    /\ browserInstance' = TRUE
    /\ AcquireLock(c, "launch", "acquire")
    /\ UNCHANGED <<browser, context, isConnected, retryCount, heldContext>>

\* the acquire timeout of a queued call of launch() or close() fires
AcquireTimeout(c) ==
    /\ bpc[c] = "acquire"
    /\ queue' = SettleWaiter(c)
    /\ bpc' = [bpc EXCEPT ![c] = AfterFailure(c)]
    /\ UNCHANGED <<locked, browser, context, isConnected, retryCount, heldContext, browserInstance>>

\* the catch of launch(): the fields are cleared, the error is thrown and
\* withLock releases
LaunchFailed(c) ==
    /\ browser' = "null"
    /\ context' = "null"
    /\ isConnected' = FALSE
    /\ ReleaseLock([bpc EXCEPT ![c] = AfterFailure(c)])
    /\ UNCHANGED <<retryCount, heldContext, browserInstance>>

\* launch() holds the lock and nothing usable is launched: await
\* chromium.launch settles
ChromiumLaunched(c, ok) ==
    /\ bpc[c] = "launch"
    /\ browser = "null" \/ context = "null" \/ ~isConnected
    /\ IF ok
       THEN /\ browser' = "connected"
            /\ bpc' = [bpc EXCEPT ![c] = "newContext"]
            /\ UNCHANGED <<locked, queue, context, isConnected, retryCount, heldContext, browserInstance>>
       ELSE LaunchFailed(c)

\* await this.browser.newContext settles; isConnected = true
NewContextSettled(c, ok) ==
    /\ bpc[c] = "newContext"
    /\ ok => browser = "connected"
    /\ IF ok
       THEN /\ context' = "open"
            /\ isConnected' = TRUE
            /\ bpc' = [bpc EXCEPT ![c] = "initPage"]
            /\ UNCHANGED <<locked, queue, browser, retryCount, heldContext, browserInstance>>
       ELSE LaunchFailed(c)

\* the test page of launch() has been opened, loaded (or not) and closed:
\* launch() returns its browser and context and withLock releases; a
\* rejected newPage or close goes to the catch
InitPageSettled(c, ok) ==
    /\ bpc[c] = "initPage"
    /\ IF ok
       THEN /\ heldContext' = [heldContext EXCEPT ![c] = ContextState]
            /\ ReleaseLock([bpc EXCEPT ![c] = Launched(c)])
            /\ UNCHANGED <<browser, context, isConnected, retryCount, browserInstance>>
       ELSE LaunchFailed(c)

\* launch() holds the lock and finds the browser connected: it returns the
\* browser and context it has, release()
LaunchReuse(c) ==
    /\ bpc[c] = "launch"
    /\ browser = "connected" /\ context # "null" /\ isConnected
    /\ heldContext' = [heldContext EXCEPT ![c] = ContextState]
    /\ ReleaseLock([bpc EXCEPT ![c] = Launched(c)])
    /\ UNCHANGED <<browser, context, isConnected, retryCount, browserInstance>>

\* launch() holds the lock and finds the browser disconnected: it clears its
\* fields and returns this.launch(), whose acquire() finds the lock held
LaunchRelaunch(c) ==
    /\ bpc[c] = "launch"
    /\ browser = "disconnected" /\ context # "null" /\ isConnected
    /\ browser' = "null"
    /\ context' = "null"
    /\ isConnected' = FALSE
    /\ Len(queue) < MaxQueue
    /\ queue' = Append(queue, Waiter(c))
    /\ bpc' = [bpc EXCEPT ![c] = "relaunch"]
    /\ UNCHANGED <<locked, retryCount, heldContext, browserInstance>>

\* the acquire timeout of the inner launch() fires: the outer withLock
\* releases in its finally, the caller gets the error
RelaunchTimeout(c) ==
    /\ bpc[c] = "relaunch"
    /\ LET settled == SettleWaiter(c) IN
        /\ locked' = TRUE
        /\ queue' = Tail(settled)
        /\ bpc' = IF Head(settled).settled THEN [bpc EXCEPT ![c] = AfterFailure(c)]
                  ELSE [bpc EXCEPT ![c] = AfterFailure(c),
                                   ![Head(settled).caller] = Granted(Head(settled).caller)]
    /\ UNCHANGED <<browser, context, isConnected, retryCount, heldContext, browserInstance>>

\* await context.newPage() settles, outside the lock, on the context that
\* launch() returned to this caller
NewPage(c) ==
    /\ bpc[c] = "newPage"
    /\ IF heldContext[c] = "open"
       THEN /\ bpc' = [bpc EXCEPT ![c] = "page"]
            /\ UNCHANGED heldContext
       ELSE /\ bpc' = [bpc EXCEPT ![c] = AfterFailure(c)]
            /\ heldContext' = [heldContext EXCEPT ![c] = "none"]
    /\ UNCHANGED <<locked, queue, browser, context, isConnected, retryCount, browserInstance>>

\* fn(page) has settled: the finally of withPage calls page.close() and
\* awaits it
FnSettled(c) ==
    /\ bpc' = [bpc EXCEPT ![c] = "pageClose"]
    /\ UNCHANGED <<locked, queue, browser, context, isConnected, retryCount, heldContext,
                   browserInstance>>

\* fn(page) of a caller of withPage settles
PageDone(c) ==
    /\ bpc[c] = "page"
    /\ FnSettled(c)

\* await page.close().catch(...) settles, whatever became of the browser:
\* withPage settles as fn(page) did
PageClosed(c) ==
    /\ bpc[c] = "pageClose"
    /\ bpc' = [bpc EXCEPT ![c] = "idle"]
    /\ heldContext' = [heldContext EXCEPT ![c] = "none"]
    /\ UNCHANGED <<locked, queue, browser, context, isConnected, retryCount, browserInstance>>

\* await context.cookies, addCookies or clearCookies settles
CookiesSettled(c) ==
    /\ bpc[c] = "cookies"
    /\ bpc' = [bpc EXCEPT ![c] = "idle"]
    /\ heldContext' = [heldContext EXCEPT ![c] = "none"]
    /\ UNCHANGED <<locked, queue, browser, context, isConnected, retryCount, browserInstance>>

\* close() on the manager of getBrowser() asks for the lock
CloseCall(c) ==
    /\ c \in CloseCallers
    /\ bpc[c] = "idle"
    /\ browserInstance' = TRUE
    /\ AcquireLock(c, "closing", "acquire")
    /\ UNCHANGED <<browser, context, isConnected, retryCount, heldContext>>

\* closeBrowser(): if (browserInstance) await browserInstance.close()
closeBrowser(c) ==
    /\ c \in ShutdownCallers
    /\ bpc[c] = "idle"
    /\ browserInstance
    /\ AcquireLock(c, "closing", "acquire")
    /\ UNCHANGED <<browser, context, isConnected, retryCount, heldContext, browserInstance>>

\* close() holds the lock: await this.context.close() settles, context = null
CloseContextSettled(c) ==
    /\ bpc[c] = "closing"
    /\ context # "null"
    /\ context' = "null"
    /\ heldContext' = ContextsClosed
    /\ bpc' = [bpc EXCEPT ![c] = "closeBrowser"]
    /\ UNCHANGED <<locked, queue, browser, isConnected, retryCount, browserInstance>>

\* the callers still at work on a manager that getBrowser() no longer
\* returns: they go on with its lock, fields and context
Replaced(pcs) ==
    [c \in BrowserCallers |->
        IF pcs[c] \in {"idle", "page", "pageClose", "cookies"} THEN pcs[c] ELSE "detached"]

\* close() is past its context: await this.browser.close() settles (when
\* there is a browser), browser = null, isConnected = false, release(); after
\* the close() of closeBrowser(), browserInstance = null, and the lock and
\* fields are from now on those of the manager the next getBrowser() builds
CloseBrowserSettled(c) ==
    /\ bpc[c] = "closeBrowser" \/ (bpc[c] = "closing" /\ context = "null")
    /\ browser' = "null"
    /\ isConnected' = FALSE
    /\ IF c \in ShutdownCallers
       THEN /\ browserInstance' = FALSE
            /\ locked' = FALSE
            /\ queue' = <<>>
            /\ bpc' = Replaced([bpc EXCEPT ![c] = "idle"])
            /\ heldContext' = [d \in BrowserCallers |->
                                  IF bpc[d] \in {"page", "pageClose", "cookies"} THEN heldContext[d]
                                  ELSE "none"]
       ELSE /\ ReleaseLock([bpc EXCEPT ![c] = "idle"])
            /\ UNCHANGED <<heldContext, browserInstance>>
    /\ UNCHANGED <<context, retryCount>>

\* the call of a caller left on a replaced manager settles: when ok, a
\* caller of withPage has its page on the open context that the launch() of
\* that manager returned to it; otherwise the call ends with an error or
\* with nothing
DetachedSettles(c, ok) ==
    /\ bpc[c] = "detached"
    /\ bpc' = [bpc EXCEPT ![c] = IF ok /\ c \in PageCallers THEN "page" ELSE "idle"]
    /\ heldContext' = [heldContext EXCEPT ![c] = IF ok /\ c \in PageCallers THEN OpenReplaced
                                                 ELSE "none"]
    /\ UNCHANGED <<locked, queue, browser, context, isConnected, retryCount, browserInstance>>

\* the browser process dies: its context is gone with it
BrowserDisconnects ==
    /\ browser = "connected"
    /\ browser' = "disconnected"
    /\ heldContext' = ContextsClosed
    /\ UNCHANGED <<locked, queue, context, isConnected, bpc, retryCount, browserInstance>>

(***************************************************************************)
(* scrapers/streaming.js: scrapeEpisodeStreaming, scrapeWithBrowser,       *)
(* scrapeWithFetch                                                         *)
(***************************************************************************)

TitleNone == <<>>

TitleShow == <<"S", "h", "o", "w">>

TitleShow2x5 == <<"S", "h", "o", "w", " ", "2", "x", "5">>

\* Bodies of episode pages: the title element's text, the src of each iframe
\* and of each video/source element, in document order
PageEmptyBody == [raw |-> "", title |-> TitleNone, iframes |-> <<>>, videos |-> <<>>]

PageNoSource == [raw |-> "doc0", title |-> TitleShow, iframes |-> << <<>> >>, videos |-> <<>>]

PageOneIframe == [raw |-> "doc1", title |-> TitleShow, iframes |-> <<SrcDirect>>, videos |-> <<>>]

PageMixed ==
    [raw |-> "doc2", title |-> TitleShow2x5,
     iframes |-> <<SrcTrembedRelative, SrcTrembedSchemeless>>, videos |-> <<SrcVideoRelative>>]

\* three iframes, each a redirect page
PageTrembed3 ==
    [raw |-> "doc3", title |-> TitleShow,
     iframes |-> <<SrcTrembed, SrcTrembedRelative, SrcTrembedSchemeless>>, videos |-> <<>>]

\* six sources: four players, then two redirect pages
PageSix ==
    [raw |-> "doc4", title |-> TitleShow,
     iframes |-> <<SrcDirectHttp, SrcDirect, SrcDirect, SrcDirect, SrcTrembed, SrcTrembedRelative>>,
     videos |-> <<>>]

\* one iframe, the player of the skipped provider
PageBlocked == [raw |-> "doc5", title |-> TitleShow, iframes |-> <<SrcBlocked>>, videos |-> <<>>]

StreamPages ==
    {PageEmptyBody, PageNoSource, PageOneIframe, PageMixed, PageTrembed3, PageSix, PageBlocked}

\* src.startsWith('http') ? src : (src.startsWith('//') ? `https:${src}` : `https://toonstream.love${src}`)
IframeFullSrc(src) ==
    IF StartsWithHttp(src) THEN src
    ELSE IF StartsWithSlashSlash(src) THEN <<"https:">> \o src
    ELSE <<"https://toonstream.love">> \o src

\* src.startsWith('http') ? src : `https://toonstream.love${src}`
VideoFullSrc(src) ==
    IF StartsWithHttp(src) THEN src ELSE <<"https://toonstream.love">> \o src

RECURSIVE IframeSources(_)
\* $('iframe, [class*="player"] iframe').each: one source per iframe that has a src
IframeSources(srcs) ==
    IF Len(srcs) = 0 THEN <<>>
    ELSE (IF Len(Head(srcs)) > 0
          THEN <<[type |-> "iframe", url |-> IframeFullSrc(Head(srcs)), quality |-> "default"]>>
          ELSE <<>>) \o IframeSources(Tail(srcs))

RECURSIVE VideoSources(_)
\* $('video source, source, video').each: one source per element that has a src
VideoSources(srcs) ==
    IF Len(srcs) = 0 THEN <<>>
    ELSE (IF Len(Head(srcs)) > 0
          THEN <<[type |-> "video", url |-> VideoFullSrc(Head(srcs)), quality |-> "default"]>>
          ELSE <<>>) \o VideoSources(Tail(srcs))

\* !season || !episode
NoSeasonOrEpisode(season, episode) ==
    season = NullNum \/ season = 0 \/ episode = NullNum \/ episode = 0

\* season and episode: from the title, else from the id
SeasonEpisode(title, episodeId) ==
    LET episodeMatch == MatchTitleSxE(title)
        idMatch == MatchIdSxE(episodeId) IN
    IF NoSeasonOrEpisode(episodeMatch.season, episodeMatch.episode) /\ idMatch.found
    THEN [season |-> idMatch.season, episode |-> idMatch.episode]
    ELSE [season |-> episodeMatch.season, episode |-> episodeMatch.episode]

\* the object scrapeWithFetch returns for a fetched page (the fields no
\* operation of the model reads, downloads, languages and servers, are left out)
StreamData(episodeId, page) ==
    [success |-> TRUE,
     episodeId |-> episodeId,
     title |-> page.title,
     season |-> SeasonEpisode(page.title, episodeId).season,
     episode |-> SeasonEpisode(page.title, episodeId).episode,
     sources |-> IframeSources(page.iframes) \o VideoSources(page.videos)]

\* the url shapes scrapeWithFetch tries, in the order it tries them
ProbeShapes(episodeId) ==
    IF LooksLikeEpisode(episodeId)
    THEN <<"episode", "series", "movies">>
    ELSE <<"series", "movies", "episode">>

\* throw new Error(`Failed to scrape episode streaming: ${error.message}`)
StreamWrap(message) == <<"Failed to scrape episode streaming: ">> \o message

\* the caller of withPage a browser-mode call of the model runs as
StreamCaller == "scrape1"

\* the locals of scrapeWithBrowser and of the goto it awaits, none before
\* fn(page) starts, and how fn(page) settled, pending before it has
NoNav ==
    [urlIdx |-> 0, attempt |-> 0, title |-> TitleNone, iframeUrls |-> <<>>, i |-> 0,
     sources |-> <<>>, lastError |-> <<>>, settled |-> NoResult]

\* the url paths scrapeWithBrowser navigates to, in its order
BrowserShapes == <<"episode", "series", "movies">>

\* what a navigation of the page ends in: page.goto rejects, or it resolves
\* and the evaluate after it rejects or returns what it reads off the document
Navigations(pages) ==
    {[stage |-> "done", page |-> p] : p \in pages}
        \cup {[stage |-> s, page |-> PageEmptyBody] : s \in {"goto", "evaluate"}}

\* the length of a url in characters
RECURSIVE CharLen(_)
CharLen(u) == IF Len(u) = 0 THEN 0 ELSE Len(Head(u)) + CharLen(Tail(u))

RECURSIVE BrowserIframeUrls(_)
\* iframes.map(iframe => iframe.src).filter(src => src && src.length > 10):
\* the src property is the attribute resolved against the page
BrowserIframeUrls(srcs) ==
    IF Len(srcs) = 0 THEN <<>>
    ELSE (IF Len(Head(srcs)) > 0 /\ CharLen(IframeFullSrc(Head(srcs))) > 10
          THEN <<IframeFullSrc(Head(srcs))>>
          ELSE <<>>) \o BrowserIframeUrls(Tail(srcs))

\* Documents of player pages: the video elements with their source children,
\* and the m3u8 and mp4 urls in the text of each script
PlayerEmpty == [videos |-> <<>>, scripts |-> <<>>]

PlayerVideo ==
    [videos |-> <<[src |-> <<"https://", "cdn.example", "/v/1.mp4">>,
                   sources |-> <<[src |-> <<"https://", "cdn.example", "/v/1-720.mp4">>, label |-> "720p"],
                                 [src |-> <<"https://", "cdn.example", "/v/1-raw.mp4">>, label |-> ""],
                                 [src |-> <<>>, label |-> "480p"]>>],
                  [src |-> <<>>, sources |-> <<>>]>>,
     scripts |-> <<[m3u8 |-> <<<<"https://", "cdn.example", "/v/1.m3u8">>>>, mp4 |-> <<>>],
                   [m3u8 |-> <<>>, mp4 |-> <<<<"https://", "cdn.example", "/v/2.mp4">>>>]>>]

PlayerPages == {PlayerEmpty, PlayerVideo}

\* the episode pages a browser-mode call is served
BrowserPages == {PageEmptyBody, PageNoSource, PageOneIframe, PageMixed}

VideoEntries(urls, quality) ==
    [k \in 1..Len(urls) |-> [type |-> "video", url |-> urls[k], quality |-> quality]]

RECURSIVE VideoSourceEntries(_)
\* video.querySelectorAll('source'): quality is the label attribute or 'default'
VideoSourceEntries(sources) ==
    IF Len(sources) = 0 THEN <<>>
    ELSE (IF Len(Head(sources).src) > 0
          THEN <<[type |-> "video", url |-> Head(sources).src,
                  quality |-> IF Head(sources).label = "" THEN "default" ELSE Head(sources).label]>>
          ELSE <<>>) \o VideoSourceEntries(Tail(sources))

RECURSIVE VideoElementEntries(_)
\* document.querySelectorAll('video'): the src of the element, then its sources
VideoElementEntries(videos) ==
    IF Len(videos) = 0 THEN <<>>
    ELSE (IF Len(Head(videos).src) > 0 THEN VideoEntries(<<Head(videos).src>>, "default") ELSE <<>>)
             \o VideoSourceEntries(Head(videos).sources)
             \o VideoElementEntries(Tail(videos))

RECURSIVE ScriptEntries(_)
\* document.querySelectorAll('script'): the m3u8 urls, then the mp4 urls
ScriptEntries(scripts) ==
    IF Len(scripts) = 0 THEN <<>>
    ELSE VideoEntries(Head(scripts).m3u8, "hls") \o VideoEntries(Head(scripts).mp4, "mp4")
             \o ScriptEntries(Tail(scripts))

\* videoData: what the second page.evaluate returns for a player page
VideoData(player) == VideoElementEntries(player.videos) \o ScriptEntries(player.scripts)

\* quality: `Server ${i + 1}` for i < 5
ServerLabel(n) == <<"Server 1", "Server 2", "Server 3", "Server 4", "Server 5">>[n]

\* the iframe url kept as fallback
IframeFallback(iframeUrl, n) == <<[type |-> "iframe", url |-> iframeUrl, quality |-> ServerLabel(n)]>>

\* Math.min(iframeData.iframeUrls.length, 5)
IframeCount(iframeUrls) == IF Len(iframeUrls) < 5 THEN Len(iframeUrls) ELSE 5

\* the object scrapeWithBrowser returns
BrowserData(episodeId, title, sources) ==
    [success |-> TRUE,
     episodeId |-> episodeId,
     title |-> title,
     season |-> SeasonEpisode(title, episodeId).season,
     episode |-> SeasonEpisode(title, episodeId).episode,
     sources |-> sources]

\* throw new Error(`Navigation failed after ${retryAttempts} attempts: ${lastError.message}`)
NavigationFailed(message) ==
    <<"Navigation failed after ", ToString(retryAttempts), " attempts: ">> \o message

\* scrapeEpisodeStreaming up to its first await: the cache lookup, then
\* scrapeWithBrowser enters withPage, whose launch() asks for the lock, or
\* scrapeWithFetch issues its first fetchPage
StreamCall(episodeId, useBrowser, caller) ==
    /\ spc = "idle"
    /\ sid' = episodeId
    /\ scaller' = caller
    /\ sfetches' = <<>>
    /\ slog' = <<>>
    /\ snav' = NoNav
    /\ LET cached == getCache(cache, EpisodeKey(episodeId)) IN
        IF CacheHit(cached)
        THEN /\ spc' = "done"
             /\ sresult' = Returned(cached)
             /\ UNCHANGED bvars
        ELSE IF useBrowser
        THEN /\ spc' = "withPage"
             /\ sresult' = NoResult
             /\ WithPageCall(StreamCaller)
        ELSE /\ spc' = "first"
             /\ sresult' = NoResult
             /\ UNCHANGED bvars
    /\ UNCHANGED cache

\* scrapeWithBrowser or scrapeWithFetch returns data; scrapeEpisodeStreaming
\* stores and returns it
StreamFinish(data) ==
    /\ spc' = "done"
    /\ sresult' = Returned(data)
    /\ cache' = setCache(cache, EpisodeKey(sid), data)

\* scrapeWithBrowser or scrapeWithFetch throws; the catch of
\* scrapeEpisodeStreaming wraps the error
StreamFail(message) ==
    /\ spc' = "done"
    /\ sresult' = Thrown(StreamWrap(message))
    /\ UNCHANGED cache

\* a step of the createPage of withPage
CreatePageStep(c, ok) ==
    \/ CreatePageRetry(c)
    \/ AcquireTimeout(c)
    \/ ChromiumLaunched(c, ok)
    \/ NewContextSettled(c, ok)
    \/ InitPageSettled(c, ok)
    \/ LaunchReuse(c)
    \/ LaunchRelaunch(c)
    \/ RelaunchTimeout(c)
    \/ NewPage(c)

\* a step of the withPage of a browser-mode call: when createPage returns
\* the page, fn(page) starts and awaits its first goto; when createPage gives
\* up, withPage rejects and scrapeEpisodeStreaming throws
StreamCreatePage(ok) ==
    /\ spc = "withPage"
    /\ CreatePageStep(StreamCaller, ok)
    /\ IF bpc'[StreamCaller] = "page"
       THEN /\ spc' = "goto"
            /\ snav' = [NoNav EXCEPT !.urlIdx = 1]
            /\ UNCHANGED <<sresult, cache>>
       ELSE IF bpc'[StreamCaller] = "idle"
       THEN /\ StreamFail(CreatePageThrown(bpc[StreamCaller]))
            /\ UNCHANGED snav
       ELSE UNCHANGED <<spc, snav, sresult, cache>>
    /\ UNCHANGED <<sid, scaller, sfetches, slog>>

\* fn(page) returns its data, with the locals nav: the finally of withPage
\* awaits page.close()
StreamBrowserFinish(nav, title, sources) ==
    /\ spc' = "pageClose"
    /\ snav' = [nav EXCEPT !.settled = Returned(BrowserData(sid, title, sources))]
    /\ FnSettled(StreamCaller)
    /\ UNCHANGED <<sresult, cache>>

\* the error of one url path is caught: the next path is tried, after the
\* last one fn(page) throws lastError and the finally of withPage awaits
\* page.close()
StreamNextPath(error) ==
    IF snav.urlIdx < Len(BrowserShapes)
    THEN /\ snav' = [NoNav EXCEPT !.urlIdx = snav.urlIdx + 1, !.lastError = error]
         /\ UNCHANGED <<spc, sresult, cache, bvars>>
    ELSE /\ spc' = "pageClose"
         /\ snav' = [snav EXCEPT !.lastError = error, !.settled = Thrown(error)]
         /\ FnSettled(StreamCaller)
         /\ UNCHANGED <<sresult, cache>>

\* await page.close() of withPage's finally settles: withPage settles as
\* fn(page) did, and scrapeEpisodeStreaming stores and returns the data or
\* throws the wrapped error
StreamPageClosed ==
    /\ spc = "pageClose"
    /\ PageClosed(StreamCaller)
    /\ IF snav.settled.ok
       THEN StreamFinish(snav.settled.value)
       ELSE StreamFail(snav.settled.message)
    /\ UNCHANGED <<sid, scaller, sfetches, slog, snav>>

\* browser.goto(page, fullUrl) of the current url path: one page.goto
\* settles; a rejected one is retried after the delay, the last one makes
\* goto throw; after a resolved one the page is read
StreamGotoSettled(nav) ==
    /\ spc = "goto"
    /\ nav.stage = "done" => ContextOpen(StreamCaller)
    /\ IF nav.stage = "goto" /\ snav.attempt < retryAttempts - 1
       THEN /\ snav' = [snav EXCEPT !.attempt = @ + 1]
            /\ UNCHANGED <<spc, sresult, cache, bvars>>
       ELSE IF nav.stage = "goto"
       THEN StreamNextPath(NavigationFailed(NavError))
       ELSE IF nav.stage = "evaluate"
       THEN StreamNextPath(TargetClosed)
       ELSE LET iframeUrls == BrowserIframeUrls(nav.page.iframes) IN
            IF IframeCount(iframeUrls) = 0
            THEN StreamBrowserFinish([snav EXCEPT !.attempt = 0, !.title = nav.page.title],
                                     nav.page.title, <<>>)
            ELSE /\ spc' = "iframe"
                 /\ snav' = [snav EXCEPT !.attempt = 0, !.title = nav.page.title,
                                         !.iframeUrls = iframeUrls]
                 /\ UNCHANGED <<sresult, cache, bvars>>
    /\ UNCHANGED <<sid, scaller, sfetches, slog>>

\* the sources of iframe i + 1 are pushed: the next iframe is navigated to,
\* after the last one the data is returned
StreamIframeDone(entries) ==
    LET sources == snav.sources \o entries IN
    IF snav.i + 1 < IframeCount(snav.iframeUrls)
    THEN /\ snav' = [snav EXCEPT !.attempt = 0, !.i = @ + 1, !.sources = sources]
         /\ UNCHANGED <<spc, sresult, cache, bvars>>
    ELSE StreamBrowserFinish([snav EXCEPT !.attempt = 0, !.i = @ + 1, !.sources = sources],
                             snav.title, sources)

\* browser.goto(page, iframeUrl) of iframe i + 1: one page.goto settles; the
\* videos read off the player page are pushed, the iframe url when there are
\* none or when the goto or the evaluate throws
StreamIframeSettled(nav) ==
    /\ spc = "iframe"
    /\ nav.stage = "done" => ContextOpen(StreamCaller)
    /\ IF nav.stage = "goto" /\ snav.attempt < retryAttempts - 1
       THEN /\ snav' = [snav EXCEPT !.attempt = @ + 1]
            /\ UNCHANGED <<spc, sresult, cache, bvars>>
       ELSE IF nav.stage = "done" /\ Len(VideoData(nav.page)) > 0
       THEN StreamIframeDone(VideoData(nav.page))
       ELSE StreamIframeDone(IframeFallback(snav.iframeUrls[snav.i + 1], snav.i + 1))
    /\ UNCHANGED <<sid, scaller, sfetches, slog>>

\* the first fetchPage of scrapeWithFetch completes
StreamFirstFetched(resp) ==
    /\ spc = "first"
    /\ sfetches' = Append(sfetches, PageUrl(ProbeShapes(sid)[1], sid))
    /\ slog' = Append(slog, resp)
    /\ LET r == fetchPage(resp) IN
        IF r.ok THEN StreamFinish(StreamData(sid, r.html))
        ELSE IF IsNotFound(r.message)
        THEN /\ spc' = "second"
             /\ UNCHANGED <<sresult, cache>>
        ELSE StreamFail(r.message)
    /\ UNCHANGED <<sid, scaller, snav>>

\* the second fetchPage completes: the inner catch (seriesError, movieError)
\* goes on to the third shape whatever the error
StreamSecondFetched(resp) ==
    /\ spc = "second"
    /\ sfetches' = Append(sfetches, PageUrl(ProbeShapes(sid)[2], sid))
    /\ slog' = Append(slog, resp)
    /\ LET r == fetchPage(resp) IN
        IF r.ok THEN StreamFinish(StreamData(sid, r.html))
        ELSE /\ spc' = "third"
             /\ UNCHANGED <<sresult, cache>>
    /\ UNCHANGED <<sid, scaller, snav>>

\* the third fetchPage completes: its error becomes lastError and is thrown
StreamThirdFetched(resp) ==
    /\ spc = "third"
    /\ sfetches' = Append(sfetches, PageUrl(ProbeShapes(sid)[3], sid))
    /\ slog' = Append(slog, resp)
    /\ LET r == fetchPage(resp) IN
        IF r.ok THEN StreamFinish(StreamData(sid, r.html)) ELSE StreamFail(r.message)
    /\ UNCHANGED <<sid, scaller, snav>>

\* the frame of a finished call is gone
StreamFrameGone ==
    /\ spc' = "idle"
    /\ scaller' = "client"
    /\ sid' = IdShow
    /\ sfetches' = <<>>
    /\ slog' = <<>>
    /\ snav' = NoNav
    /\ sresult' = NoResult

\* the caller takes the result of the finished call
StreamReturn ==
    /\ spc = "done"
    /\ scaller = "client"
    /\ StreamFrameGone
    /\ UNCHANGED cache

(***************************************************************************)
(* routes/embed.js: GET /embed/:id                                         *)
(***************************************************************************)

\* the id and the values of ?type= the handler is called with
EmbedIds == {IdShow1x1}

EmbedTypes == {"auto", "movie"}

EmbedKey(id, type) == <<"embed", id, type>>

EmbedKeys == {EmbedKey(i, t) : i \in EmbedIds, t \in EmbedTypes}

\* decodeHTMLEntities: &amp; becomes &
decodeHTMLEntities(u) == [i \in 1..Len(u) |-> IF u[i] = "&amp;" THEN "&" ELSE u[i]]

\* '//' gets https:, '/' gets the site origin, http:// becomes https://
NormalizePlayerSrc(u) ==
    IF StartsWithSlashSlash(u) THEN <<"https:">> \o u
    ELSE IF StartsWithSlash(u) THEN <<"https://toonstream.one">> \o u
    ELSE IF StartsWithHttpPlain(u) THEN [u EXCEPT ![1] = "https://"]
    ELSE u

\* the script-tag fallback of the movie page: no http:// rewrite
NormalizeScriptSrc(u) ==
    IF StartsWithSlashSlash(u) THEN <<"https:">> \o u
    ELSE IF StartsWithSlash(u) THEN <<"https://toonstream.one">> \o u
    ELSE u

\* generateCleanPlayer: the iframe url of the player shell, forced to https
generateCleanPlayer(src) ==
    [kind |-> "player",
     iframeSrc |-> IF StartsWithHttpPlain(src) THEN [src EXCEPT ![1] = "https://"] ELSE src]

ErrorJson(message) == [kind |-> "json", message |-> message, errorTitle |-> "error"]

\* the catch block: the error.message it logs, and the error page it renders,
\* whose title goes by that message
ErrorPage(message) ==
    [kind |-> "error",
     message |-> message,
     errorTitle |-> IF Includes(message, "404") THEN "Video Not Found"
                    ELSE IF Includes(message, "timeout") THEN "RyanCloud Under Maintenance"
                    ELSE "Video Not Available"]

\* Bodies of movie pages: data-src and src of the first player iframe, and
\* the src the script-tag regex finds; <<>> where there is none
MoviePageNone == [raw |-> "m0", dataSrc |-> NoUrl, src |-> NoUrl, scriptSrc |-> NoUrl]

MoviePageIframe ==
    [raw |-> "m1", dataSrc |-> NoUrl, src |-> <<"//", "player.example", "/embed/7">>, scriptSrc |-> NoUrl]

MoviePageScript ==
    [raw |-> "m2", dataSrc |-> NoUrl, src |-> NoUrl, scriptSrc |-> <<"/", "player", "/8">>]

MoviePageBlocked ==
    [raw |-> "m3", dataSrc |-> NoUrl, src |-> <<"https://", "vidstreaming.xyz", "/embed/4">>, scriptSrc |-> NoUrl]

MoviePages == {MoviePageNone, MoviePageIframe, MoviePageScript, MoviePageBlocked}

\* the iframeSrc the movie branch extracts from an axios response, NoUrl
\* when the branch throws (a failed request, or no player on the page)
MovieIframeSrc(resp) ==
    IF resp.kind = "network" \/ resp.status # 200 THEN NoUrl
    ELSE LET src == IF Len(resp.data.dataSrc) > 0 THEN resp.data.dataSrc ELSE resp.data.src IN
         IF Len(src) > 0 THEN NormalizePlayerSrc(decodeHTMLEntities(src))
         ELSE IF Len(resp.data.scriptSrc) > 0 THEN NormalizeScriptSrc(resp.data.scriptSrc)
         ELSE NoUrl

\* Bodies of trembed pages: what the data-src and the src regex capture
TrembedPageNone == [raw |-> "t0", dataSrc |-> NoUrl, src |-> NoUrl]

TrembedPagePlayer == [raw |-> "t1", dataSrc |-> NoUrl, src |-> <<"//", "player.example", "/v/9">>]

TrembedPageHttp ==
    [raw |-> "t2", dataSrc |-> <<"http://", "alt.example", "/p?a=1", "&amp;", "b=2">>,
     src |-> <<"//", "player.example", "/v/9">>]

TrembedPageBlocked ==
    [raw |-> "t3", dataSrc |-> NoUrl, src |-> <<"https://", "vidstreaming.xyz", "/e/3">>]

TrembedPages == {TrembedPageNone, TrembedPagePlayer, TrembedPageHttp, TrembedPageBlocked}

\* a source is resolved without a request
IsDirectSource(sourceUrl) ==
    ~Includes(sourceUrl, "trembed") /\ ~Includes(sourceUrl, "toonstream.one/home")

Fulfilled(u) == [status |-> "fulfilled", url |-> u, message |-> <<>>]

\* a rejected fetchSource promise: the source it was for and the message of
\* the error it was rejected with
Rejected(u, message) == [status |-> "rejected", url |-> u, message |-> message]

\* the message of the error axios.get rejects with: the timeout fired, or the
\* status was outside 2xx
AxiosError(resp) ==
    IF resp.kind = "network" THEN <<"timeout", " of 4000ms exceeded">>
    ELSE <<"Request failed with status code ", ToString(resp.status)>>

Pending(u) == [status |-> "pending", url |-> u, message |-> <<>>]

\* fetchSource(source) up to its first await
FetchSourceStart(source) ==
    IF IsDirectSource(source.url) THEN Fulfilled(source.url) ELSE Pending(source.url)

\* fetchSource(source) after its axios.get settled
FetchSourceSettled(sourceUrl, resp) ==
    IF resp.kind = "network" \/ resp.status # 200 THEN Rejected(sourceUrl, AxiosError(resp))
    ELSE LET real == IF Len(resp.data.dataSrc) > 0 THEN resp.data.dataSrc ELSE resp.data.src IN
         IF Len(real) = 0 THEN Rejected(sourceUrl, <<"No iframe found in source">>)
         ELSE IF Includes(NormalizePlayerSrc(decodeHTMLEntities(real)), "vidstreaming.xyz")
         THEN Rejected(sourceUrl, <<"Skipping ", "vidstreaming.xyz", " (disabled)">>)
         ELSE Fulfilled(NormalizePlayerSrc(decodeHTMLEntities(real)))

\* allSources.slice(0, 5)
ActiveSources(allSources) == SubSeq(allSources, 1, IF Len(allSources) < 5 THEN Len(allSources) ELSE 5)

PromiseAll(promises) ==
    IF \E i \in 1..Len(promises) : promises[i].status = "rejected"
    THEN [settled |-> TRUE, ok |-> FALSE, url |-> NoUrl]
    ELSE IF \A i \in 1..Len(promises) : promises[i].status = "fulfilled"
    THEN [settled |-> TRUE, ok |-> TRUE, url |-> promises[1].url]
    ELSE [settled |-> FALSE, ok |-> FALSE, url |-> NoUrl]

\* Promise.any over promises of which at most the already fulfilled ones and
\* the one that settled last are not pending or rejected: the first fulfilled
\* one in array order wins, all rejected is an AggregateError
PromiseAny(promises) ==
    IF \E i \in 1..Len(promises) : promises[i].status = "fulfilled"
    THEN [settled |-> TRUE, ok |-> TRUE,
          url |-> promises[CHOOSE i \in 1..Len(promises) :
                               /\ promises[i].status = "fulfilled"
                               /\ \A j \in 1..(i - 1) : promises[j].status # "fulfilled"].url]
    ELSE IF \A i \in 1..Len(promises) : promises[i].status = "rejected"
    THEN [settled |-> TRUE, ok |-> FALSE, url |-> NoUrl]
    ELSE [settled |-> FALSE, ok |-> FALSE, url |-> NoUrl]

\* if (iframeSrc): store it under the embed key and send the player
EmbedServe(id, type, src) ==
    /\ epc' = "responded"
    /\ cache' = setCache(cache, EmbedKey(id, type), [src |-> src])
    /\ eresp' = generateCleanPlayer(src)

EmbedErrorCaching(message) ==
    /\ epc' = "responded"
    /\ eresp' = ErrorPage(message)
    /\ cache' = setCache(cache, EmbedKey(eid, etype), [src |-> message])

\* the catch block: send the error page
EmbedError(message) ==
    /\ epc' = "responded"
    /\ eresp' = ErrorPage(message)
    /\ UNCHANGED cache

\* const episodeData = await scrapeEpisodeStreaming(id): the call starts
EmbedStartStream(id) ==
    /\ epc' = "stream"
    /\ StreamCall(id, FALSE, "embed")
    /\ UNCHANGED <<eresp, cand>>

\* the handler from 'Handle different content types' to its next await
EmbedDispatch(id, ct) ==
    IF ct = "movie" \/ ct = "movies"
    THEN /\ epc' = "movie"
         /\ UNCHANGED <<cache, svars, eresp, cand>>
    ELSE EmbedStartStream(id)

\* the handler up to its first await: the cache lookup, then type detection
EmbedRequest(id, type) ==
    /\ epc = "idle"
    /\ dpc = "idle"
    /\ spc = "idle"
    /\ eid' = id
    /\ etype' = type
    /\ iframeSrc' = NoUrl
    /\ contentType' = type
    /\ LET cachedSrc == getCache(cache, EmbedKey(id, type)) IN
        IF CacheHit(cachedSrc)
        THEN /\ epc' = "responded"
             /\ eresp' = generateCleanPlayer(cachedSrc.src)
             /\ UNCHANGED <<cache, dvars, svars, cand>>
        ELSE IF type = "auto"
        THEN /\ epc' = "detail"
             /\ DetailCall(id, "auto", "embed")
             /\ UNCHANGED <<svars, eresp, cand>>
        ELSE /\ EmbedDispatch(id, type)
             /\ UNCHANGED dvars

\* await scrapeAnimeDetails(id, 'auto') settles
EmbedDetailDone ==
    /\ epc = "detail"
    /\ dpc = "done"
    /\ dcaller = "embed"
    /\ DetailFrameGone
    /\ LET ct == IF dresult.ok THEN dresult.value.type ELSE contentType IN
        /\ contentType' = ct
        /\ EmbedDispatch(eid, ct)
    /\ UNCHANGED <<eid, etype, iframeSrc>>

\* await axios.get(movieUrl) settles
EmbedMovieFetched(resp) ==
    /\ epc = "movie"
    /\ LET src == MovieIframeSrc(resp) IN
        IF Len(src) > 0
        THEN /\ iframeSrc' = src
             /\ UNCHANGED contentType
             /\ IF contentType # "movie"
                THEN EmbedStartStream(eid)
                ELSE /\ EmbedServe(eid, etype, src)
                     /\ UNCHANGED <<svars, cand>>
        ELSE /\ contentType' = "episode"
             /\ UNCHANGED iframeSrc
             /\ EmbedStartStream(eid)
    /\ UNCHANGED <<eid, etype, dvars>>

\* await scrapeEpisodeStreaming(id) settles; with sources the race starts, and
\* a source that resolves without a request wins it at once
EmbedStreamDone ==
    /\ epc = "stream"
    /\ spc = "done"
    /\ scaller = "embed"
    /\ StreamFrameGone
    /\ IF ~sresult.ok
       THEN /\ EmbedError(sresult.message)
            /\ UNCHANGED <<iframeSrc, cand>>
       ELSE IF Len(sresult.value.sources) > 0
       THEN LET activeSources == ActiveSources(sresult.value.sources)
                promises == [i \in 1..Len(activeSources) |-> FetchSourceStart(activeSources[i])] IN
            /\ cand' = promises
            /\ IF PromiseAny(promises).settled
               THEN /\ iframeSrc' = PromiseAny(promises).url
                    /\ EmbedServe(eid, etype, PromiseAny(promises).url)
               ELSE /\ epc' = "race"
                    /\ UNCHANGED <<iframeSrc, eresp, cache>>
       ELSE /\ UNCHANGED <<iframeSrc, cand>>
            /\ IF Len(iframeSrc) > 0
               THEN EmbedServe(eid, etype, iframeSrc)
               ELSE EmbedError(<<"No working video source found for this content">>)
    /\ UNCHANGED <<eid, etype, contentType, dvars>>

\* the axios.get of candidate i settles while Promise.any is pending
EmbedCandidateFetched(i, resp) ==
    /\ epc = "race"
    /\ i \in 1..Len(cand)
    /\ cand[i].status = "pending"
    /\ LET promises == [cand EXCEPT ![i] = FetchSourceSettled(cand[i].url, resp)] IN
        /\ cand' = promises
        /\ IF ~PromiseAny(promises).settled
           THEN UNCHANGED <<epc, iframeSrc, eresp, cache>>
           ELSE IF PromiseAny(promises).ok
           THEN /\ iframeSrc' = PromiseAny(promises).url
                /\ EmbedServe(eid, etype, PromiseAny(promises).url)
           ELSE /\ EmbedError(<<"No working video source found (all attempts failed)">>)
                /\ UNCHANGED iframeSrc
    /\ UNCHANGED <<eid, etype, contentType, dvars, svars>>

\* what is left of a promise that settles after Promise.any has
LateStatus(promise) == IF promise.status = "fulfilled" THEN "late-fulfilled" ELSE "late-rejected"

EmbedLateCompletionServing(i, resp) ==
    /\ epc = "responded"
    /\ i \in 1..Len(cand)
    /\ cand[i].status = "pending"
    /\ cand' = [cand EXCEPT ![i].status = LateStatus(FetchSourceSettled(cand[i].url, resp))]
    /\ IF FetchSourceSettled(cand[i].url, resp).status = "fulfilled"
       THEN /\ eresp' = generateCleanPlayer(FetchSourceSettled(cand[i].url, resp).url)
            /\ cache' = setCache(cache, EmbedKey(eid, etype), [src |-> FetchSourceSettled(cand[i].url, resp).url])
       ELSE /\ eresp' = ErrorPage(FetchSourceSettled(cand[i].url, resp).message)
            /\ UNCHANGED cache
    /\ UNCHANGED <<epc, eid, etype, contentType, iframeSrc, dvars, svars>>

\* the axios.get of candidate i settles after Promise.any has settled: the
\* promise fulfils or rejects, Promise.any has handled it, and nothing else
\* awaits it
EmbedLateCompletion(i, resp) ==
    /\ epc = "responded"
    /\ i \in 1..Len(cand)
    /\ cand[i].status = "pending"
    /\ cand' = [cand EXCEPT ![i].status = LateStatus(FetchSourceSettled(cand[i].url, resp))]
    /\ UNCHANGED <<cache, epc, eid, etype, contentType, iframeSrc, eresp, dvars, svars>>

\* the response is out; the frame of the handler is gone
EmbedEnd ==
    /\ epc = "responded"
    /\ epc' = "idle"
    /\ eid' = IdShow
    /\ etype' = "auto"
    /\ contentType' = "auto"
    /\ iframeSrc' = NoUrl
    /\ cand' = <<>>
    /\ eresp' = NoResponse
    /\ UNCHANGED <<cache, dvars, svars>>

(***************************************************************************)
(* Listings: extractAnimeCard, scrapeCategory, scrapeSearch, scrapeHome    *)
(*                                                                         *)
(* An href is the tuple of its path segments, <<"series", "naruto">> for   *)
(* '/series/naruto/'; <<>> is an anchor without href.  A list item holds   *)
(* its class, whether it has an article.post, its anchors in document      *)
(* order, the title extractAnimeCard finds (alt) and the text of the       *)
(* article's .entry-title (entry).                                         *)
(***************************************************************************)

\* the most list items a document of the model holds
MaxItems == 3

Anchor(class, href) == [class |-> class, href |-> href]

LiNaruto ==
    [class |-> "type-series", article |-> TRUE,
     anchors |-> <<Anchor("lnk-blk", <<"series", "naruto">>)>>, alt |-> "Naruto", entry |-> "Naruto"]

\* the same series again, with another title
LiNarutoDub ==
    [class |-> "type-series", article |-> TRUE,
     anchors |-> <<Anchor("lnk-blk", <<"series", "naruto">>)>>, alt |-> "Naruto Dub", entry |-> "Naruto Dub"]

\* the same series by a longer path
LiNarutoSeason ==
    [class |-> "type-series", article |-> TRUE,
     anchors |-> <<Anchor("lnk-blk", <<"series", "naruto", "season-2">>)>>, alt |-> "Naruto S2", entry |-> "Naruto S2"]

\* the same series with no title anywhere
LiNarutoUntitled ==
    [class |-> "type-series", article |-> TRUE,
     anchors |-> <<Anchor("lnk-blk", <<"series", "naruto">>)>>, alt |-> "", entry |-> ""]

LiAkira ==
    [class |-> "type-movies", article |-> TRUE,
     anchors |-> <<Anchor("lnk-blk", <<"movies", "akira">>)>>, alt |-> "Akira", entry |-> "Akira"]

\* a series under the class of the movies
LiBleachAsMovie ==
    [class |-> "type-movies", article |-> TRUE,
     anchors |-> <<Anchor("lnk-blk", <<"series", "bleach">>)>>, alt |-> "Bleach", entry |-> "Bleach"]

\* a genre link
LiGenre ==
    [class |-> "", article |-> FALSE,
     anchors |-> <<Anchor("lnk-blk", <<"genre", "action">>)>>, alt |-> "Action", entry |-> ""]

ListItems == {LiNaruto, LiNarutoDub, LiNarutoSeason, LiNarutoUntitled, LiAkira, LiBleachAsMovie, LiGenre}

\* the documents: the items of ul.post-lst in document order
ListingDocs == UNION {[1..n -> ListItems] : n \in 0..MaxItems}

\* url.startsWith('http') ? url : `${config.baseUrl}${url}`
normalizeUrl(link) ==
    IF Len(link) > 0 /\ link[1] \in {"http:", "https:"} THEN link
    ELSE <<"https:", "toonstream.love">> \o link

\* no id: null
NoId == ""

\* url.match(/\/(series|movies?)\/([^\/]+)/): the segment after the first
\* 'series', 'movie' or 'movies' segment that has one
extractAnimeId(link) ==
    LET hits == {i \in 1..(Len(link) - 1) : link[i] \in {"series", "movies", "movie"}} IN
    IF hits = {} THEN NoId
    ELSE link[(CHOOSE i \in hits : \A j \in hits : i <= j) + 1]

\* url.includes('/category/') || '/tag/' || '/cast_tv/' || '/genre/'
IsNonContentLink(link) ==
    \E i \in 1..Len(link) : link[i] \in {"category", "tag", "cast_tv", "genre"}

\* href*="/series/", "/movies/" or "/movie/"
IsContentHref(href) == \E i \in 1..Len(href) : href[i] \in {"series", "movies", "movie"}

\* $element.find(selector).first().attr('href'): <<>> when nothing matches
FirstHref(anchors, Matches(_)) ==
    LET hits == {i \in 1..Len(anchors) : Matches(anchors[i])} IN
    IF hits = {} THEN <<>>
    ELSE anchors[CHOOSE i \in hits : \A j \in hits : i <= j].href

IsContentAnchor(a) == IsContentHref(a.href)

IsLnkBlk(a) == a.class = "lnk-blk"

\* extractAnimeCard: the card of a list item, or null (the poster, which no
\* operation of the model reads, is left out)
extractAnimeCard(li) ==
    LET link == FirstHref(li.anchors, IsContentAnchor) IN
    IF Len(link) = 0 THEN Undefined
    ELSE IF IsNonContentLink(link) THEN Undefined
    ELSE IF extractAnimeId(normalizeUrl(link)) = NoId THEN Undefined
    ELSE IF li.alt = "" THEN Undefined
    ELSE [id |-> extractAnimeId(normalizeUrl(link)), title |-> li.alt, url |-> normalizeUrl(link)]

RECURSIVE CategoryCards(_, _)
\* the each() loop of scrapeCategory over the items left, processedIds so far
CategoryCards(items, processedIds) ==
    IF Len(items) = 0 THEN <<>>
    ELSE LET anime == extractAnimeCard(Head(items)) IN
         IF ~IsUndefined(anime) /\ anime.id # NoId /\ anime.id \notin processedIds
         THEN <<anime>> \o CategoryCards(Tail(items), processedIds \cup {anime.id})
         ELSE CategoryCards(Tail(items), processedIds)

\* type of a search result: by the li class, then by the url
SearchType(li, link) ==
    IF li.class = "type-series" THEN "Series"
    ELSE IF li.class = "type-movies" THEN "Movie"
    ELSE IF \E i \in 1..Len(link) : link[i] = "series" THEN "Series"
    ELSE IF \E i \in 1..Len(link) : link[i] \in {"movie", "movies"} THEN "Movie"
    ELSE "Unknown"

RECURSIVE SearchCards(_, _)
\* the each() loop of scrapeSearch: the id is marked as processed before the
\* title is looked at
SearchCards(items, processedIds) ==
    IF Len(items) = 0 THEN <<>>
    ELSE LET li == Head(items)
             href == FirstHref(li.anchors, IsLnkBlk)
             link == normalizeUrl(href)
             id == extractAnimeId(link) IN
         IF ~li.article \/ Len(href) = 0 \/ IsNonContentLink(href) THEN SearchCards(Tail(items), processedIds)
         ELSE IF id = NoId \/ id \in processedIds THEN SearchCards(Tail(items), processedIds)
         ELSE IF li.entry = "" THEN SearchCards(Tail(items), processedIds \cup {id})
         ELSE <<[id |-> id, title |-> li.entry, url |-> link, type |-> SearchType(li, link)]>>
                  \o SearchCards(Tail(items), processedIds \cup {id})

\* data.latestSeries.length < 20, data.latestMovies.length < 20
LatestLimit == 20

RECURSIVE HomeLists(_, _, _)
\* the each() loop of scrapeHome: processedIds holds the last path segment of
\* the a.lnk-blk href, the card comes from extractAnimeCard
HomeLists(items, processedIds, data) ==
    IF Len(items) = 0 THEN data
    ELSE LET li == Head(items)
             link == FirstHref(li.anchors, IsLnkBlk)
             id == IF Len(link) = 0 THEN NoId ELSE link[Len(link)]
             anime == extractAnimeCard(li) IN
         IF Len(link) = 0 \/ id = NoId \/ id \in processedIds THEN HomeLists(Tail(items), processedIds, data)
         ELSE IF IsUndefined(anime) THEN HomeLists(Tail(items), processedIds \cup {id}, data)
         ELSE IF li.class = "type-series" \/ (\E i \in 1..Len(anime.url) : anime.url[i] = "series")
         THEN HomeLists(Tail(items), processedIds \cup {id},
                        IF Len(data.latestSeries) < LatestLimit
                        THEN [data EXCEPT !.latestSeries = Append(@, anime)] ELSE data)
         ELSE IF li.class = "type-movies" \/ (\E i \in 1..Len(anime.url) : anime.url[i] \in {"movies", "movie"})
         THEN HomeLists(Tail(items), processedIds \cup {id},
                        IF Len(data.latestMovies) < LatestLimit
                        THEN [data EXCEPT !.latestMovies = Append(@, anime)] ELSE data)
         ELSE HomeLists(Tail(items), processedIds \cup {id}, data)

\* the arguments the listing operations are called with
CategoryKey == <<"category", "action", "1">>

SearchKey == <<"search", "naruto", "1">>

HomeKey == <<"home">>

\* the object scrapeCategory builds from its parsed page
CategoryData(items) == [cards |-> CategoryCards(items, {})]

\* the object scrapeSearch builds from its parsed page
SearchData(items) == [cards |-> SearchCards(items, {})]

\* the object scrapeHome builds; cards holds latestSeries, then latestMovies
HomeData(items) ==
    LET data == HomeLists(items, {}, [latestSeries |-> <<>>, latestMovies |-> <<>>]) IN
    [cards |-> data.latestSeries \o data.latestMovies,
     latestSeries |-> data.latestSeries,
     latestMovies |-> data.latestMovies]

\* a listing operation up to its first await: the cache lookup, a stored
\* object is returned, else fetchPage is called
ListingCall(operation, cacheKey) ==
    /\ applied = "none"
    /\ applied' = operation
    /\ LET cached == getCache(cache, cacheKey) IN
        output' = IF CacheHit(cached) THEN cached ELSE NoResult
    /\ UNCHANGED <<input, cache, dvars, svars, evars, bvars>>

\* the fetchPage of a listing operation completes: the page is parsed, the
\* object built, stored and returned; a failed fetch is rethrown
ListingFetched(operation, cacheKey, data, prefix, resp) ==
    /\ applied = operation
    /\ output = NoResult
    /\ LET r == fetchPage(resp) IN
        IF r.ok
        THEN /\ input' = r.html
             /\ output' = data
             /\ cache' = setCache(cache, cacheKey, data)
        ELSE /\ output' = Thrown(<<prefix>> \o r.message)
             /\ UNCHANGED <<input, cache>>
    /\ UNCHANGED <<applied, dvars, svars, evars, bvars>>

\* the caller takes the result of a finished listing operation
ListingReturn ==
    /\ applied \in {"scrapeCategory", "scrapeSearch", "scrapeHome"}
    /\ output # NoResult
    /\ applied' = "none"
    /\ output' = Undefined
    /\ UNCHANGED <<input, cache, dvars, svars, evars, bvars>>

scrapeCategory == ListingCall("scrapeCategory", CategoryKey)

CategoryFetched(resp) ==
    ListingFetched("scrapeCategory", CategoryKey, CategoryData(resp.data),
                   "Failed to scrape category: ", resp)

scrapeSearch == ListingCall("scrapeSearch", SearchKey)

SearchFetched(resp) ==
    ListingFetched("scrapeSearch", SearchKey, SearchData(resp.data), "Failed to search: ", resp)

scrapeHome == ListingCall("scrapeHome", HomeKey)

HomeFetched(resp) ==
    ListingFetched("scrapeHome", HomeKey, HomeData(resp.data), "Failed to scrape home page: ", resp)

\* the most path segments a url of the model holds
MaxSegments == 3

Segments == {"series", "movies", "movie", "cartoons", "genre", "naruto"}

\* the urls: '/', '/series/', '/series/naruto/', '/cartoons/naruto/', ..
Urls == UNION {[1..n -> Segments] : n \in 0..MaxSegments}

\* a list item whose only anchor links to href
LiLinkingTo(href) ==
    [class |-> "", article |-> TRUE, anchors |-> <<Anchor("lnk-blk", href)>>,
     alt |-> "Title", entry |-> "Title"]

\* extractAnimeId of a url, and extractAnimeCard of an item that links to it
AnimeIdExtracted ==
    /\ applied = "none"
    /\ applied' = "extractAnimeId"
    /\ output' = [id |-> extractAnimeId(input), card |-> extractAnimeCard(LiLinkingTo(input))]
    /\ UNCHANGED <<input, cache, dvars, svars, evars, bvars>>

\* the most characters a title or an episode id of the model holds
MaxChars == 4

\* the titles and the episode ids: '0x1', '11x0', .. and '-1x1', 'x-1x', ..
SxETitles == UNION {[1..n -> {"0", "1", "x"}] : n \in 0..MaxChars}

SxEIds == UNION {[1..n -> {"-", "1", "x"}] : n \in 0..MaxChars}

SxEDocs == {[title |-> t, episodeId |-> e] : t \in SxETitles, e \in SxEIds}

\* scrapeWithFetch has fetched the page of the episode and parses season and
\* episode
SeasonEpisodeParsed ==
    /\ applied = "none"
    /\ applied' = "scrapeWithFetch"
    /\ output' = SeasonEpisode(input.title, input.episodeId)
    /\ UNCHANGED <<input, cache, dvars, svars, evars, bvars>>

(***************************************************************************)
(* checkBatchAvailability                                                  *)
(*                                                                         *)
(* The input is the array of ids.  While the call runs, output holds the   *)
(* promises of ids.map, each with the outcome of its scrapeAnimeDetails    *)
(* call, and at the end what the call returned or threw.                   *)
(***************************************************************************)

\* the most ids a batch of the model holds
MaxBatch == 3

BatchDocs == UNION {[1..n -> Ids] : n \in 0..MaxBatch}

\* what the site answers to the requests of a batch: a page, 403, 404 or
\* nothing
BatchResponses == Responses({[raw |-> "docA"]})

\* the promise of an id whose scrapeAnimeDetails call awaits the fetchPage of
\* types[probe]
BatchPending == [status |-> "pending", probe |-> 1]

\* scrapeAnimeDetails(id), called without a type, when the fetchPage of
\* types[probe] settles with resp: the call goes on to the next type after
\* a 404, and ends otherwise, with the object of the page or with its
\* wrapped error
BatchProbe(id, probe, resp) ==
    LET r == fetchPage(resp) IN
    IF r.ok
    THEN [ended |-> TRUE, detail |-> Returned(DetailData(id, DetectedOf(types[probe]), r.html))]
    ELSE IF ~IsNotFound(r.message)
    THEN [ended |-> TRUE, detail |-> Thrown(DetailWrap(r.message))]
    ELSE IF probe < Len(types)
    THEN [ended |-> FALSE, detail |-> NoResult]
    ELSE [ended |-> TRUE, detail |-> Thrown(DetailWrap(NotFoundMessage(id)))]


\* a mapper without its try/catch: the error of scrapeAnimeDetails rejects
\* the promise of the id
BatchMapperRethrowing(id, detail) ==
    IF detail.ok
    THEN [status |-> "fulfilled", detail |-> detail,
          value |-> [id |-> id, available |-> TRUE, type |-> detail.value.type]]
    ELSE [status |-> "rejected", detail |-> detail, message |-> detail.message]

\* the async mapper of ids.map once scrapeAnimeDetails(id) has settled: its
\* promise is fulfilled with the entry of the id (totalEpisodes and hasHindi,
\* which the model of the detail object does not hold, are left out)
BatchMapper(id, detail) ==
    IF detail.ok
    THEN [status |-> "fulfilled", detail |-> detail,
          value |-> [id |-> id, available |-> TRUE, type |-> detail.value.type]]
    ELSE [status |-> "fulfilled", detail |-> detail,
          value |-> [id |-> id, available |-> FALSE, error |-> detail.message]]

\* Promise.all(promises): rejected with the error of a rejected promise,
\* fulfilled with the values in the order of the promises once all are
\* fulfilled
PromiseAllValues(promises) ==
    IF \E i \in 1..Len(promises) : promises[i].status = "rejected"
    THEN [settled |-> TRUE, ok |-> FALSE,
          message |-> promises[CHOOSE i \in 1..Len(promises) : promises[i].status = "rejected"].message]
    ELSE IF \A i \in 1..Len(promises) : promises[i].status = "fulfilled"
    THEN [settled |-> TRUE, ok |-> TRUE, values |-> [i \in 1..Len(promises) |-> promises[i].value]]
    ELSE [settled |-> FALSE]

\* checkBatchAvailability(ids) up to its await: ids.map has started one
\* scrapeAnimeDetails call per id; a call that finds its id in the cache
\* returns the entry before any request settles, the others await the
\* fetchPage of the first type
BatchCall ==
    /\ applied = "none"
    /\ applied' = "await Promise.all"
    /\ output' = [promises |->
                     [i \in 1..Len(input) |->
                         LET cached == getCache(cache, ContentKey(input[i], NullType)) IN
                         IF CacheHit(cached) THEN BatchMapper(input[i], Returned(cached))
                         ELSE BatchPending]]
    /\ UNCHANGED <<input, cache, dvars, svars, evars, bvars>>

\* the scrapeAnimeDetails call of the i-th id ends with detail: a returned
\* object has been stored under the key of the id, and the mapper settles
\* the promise of the id
BatchDetailSettled(i, detail) ==
    /\ output' = [output EXCEPT !.promises[i] = BatchMapper(input[i], detail)]
    /\ cache' = IF detail.ok
                THEN setCache(cache, ContentKey(input[i], NullType), detail.value)
                ELSE cache

\* the fetchPage that the scrapeAnimeDetails call of the i-th id awaits
\* settles with resp
BatchDetailFetched(i, resp) ==
    /\ applied = "await Promise.all"
    /\ i \in 1..Len(input)
    /\ output.promises[i].status = "pending"
    /\ LET probe == BatchProbe(input[i], output.promises[i].probe, resp) IN
        IF probe.ended
        THEN BatchDetailSettled(i, probe.detail)
        ELSE /\ output' = [output EXCEPT !.promises[i].probe = @ + 1]
             /\ UNCHANGED cache
    /\ UNCHANGED <<input, applied, dvars, svars, evars, bvars>>

\* Promise.all has settled: the call returns the results, or its catch
\* throws the wrapped error
BatchReturn ==
    /\ applied = "await Promise.all"
    /\ PromiseAllValues(output.promises).settled
    /\ applied' = "checkBatchAvailability"
    /\ output' = [promises |-> output.promises,
                  returned |-> IF PromiseAllValues(output.promises).ok
                               THEN Returned([success |-> TRUE,
                                              results |-> PromiseAllValues(output.promises).values])
                               ELSE Thrown(<<"Failed to check batch availability: ">>
                                               \o PromiseAllValues(output.promises).message)]
    /\ UNCHANGED <<input, cache, dvars, svars, evars, bvars>>

\* the caller has its answer; checkBatchAvailability is called again, with
\* any array of ids
BatchAgain(ids) ==
    /\ applied = "checkBatchAvailability"
    /\ applied' = "none"
    /\ input' = ids
    /\ output' = Undefined
    /\ UNCHANGED <<cache, dvars, svars, evars, bvars>>

(***************************************************************************)
(* scrapeAnimeDetails: episodes and seasons                                *)
(*                                                                         *)
(* A season container holds the text of its own heading, the hrefs of the  *)
(* episode links directly inside it and the containers nested in it; a     *)
(* page holds its containers in document order and the episode links       *)
(* outside every container.                                                *)
(***************************************************************************)

\* the most top-level season containers a page of the model holds
MaxContainers == 2

EpisodeLink1 == <<"series", "show", "episode", "1">>

EpisodeLink2 == <<"series", "show", "episode", "2">>

EpisodeLink3 == <<"series", "show", "episode", "3">>

\* the usual shape of an episode link: extractAnimeId finds no id in it
EpisodeLinkPlain == <<"episode", "show-1x1">>

HeadingNone == <<>>

HeadingSeason1 == <<"Season", " ", "1">>

HeadingSeason2 == <<"season", "2">>

HeadingSeason12 == <<"Season", " ", "1", "2">>

Container(heading, links, inner) == [heading |-> heading, links |-> links, inner |-> inner]

ContainerSeason1 == Container(HeadingSeason1, <<EpisodeLink1, EpisodeLink2>>, <<>>)

ContainerSeason2 == Container(HeadingSeason2, <<EpisodeLink3>>, <<>>)

ContainerUntitled == Container(HeadingNone, <<EpisodeLink1>>, <<>>)

ContainerPlain == Container(HeadingSeason1, <<EpisodeLinkPlain>>, <<>>)

ContainerEmpty == Container(HeadingSeason2, <<>>, <<>>)

ContainerSeason12 == Container(HeadingSeason12, <<EpisodeLink3>>, <<>>)

\* a wrapper around the containers of two seasons
ContainerNested == Container(HeadingNone, <<>>, <<ContainerSeason1, ContainerSeason2>>)

Containers ==
    {ContainerSeason1, ContainerSeason2, ContainerUntitled, ContainerPlain, ContainerEmpty,
     ContainerSeason12, ContainerNested}

\* the most articles the related-content container of a page holds
MaxRelated == 2

\* the href of the first anchor of an article of the related-content container
RelatedSeries == <<"series", "x">>

RelatedMovie == <<"movies", "y">>

RelatedGenre == <<"genre", "action">>

RelatedArticles == {RelatedSeries, RelatedMovie, RelatedGenre}

\* the pages: the detected type, the containers, the links outside them, the
\* articles of the related-content container
SeasonDocs ==
    {[type |-> t, containers |-> cs, loose |-> l, related |-> r] :
        t \in {"series", "cartoon", "movie"},
        cs \in UNION {[1..n -> Containers] : n \in 0..MaxContainers},
        l \in {<<>>, <<EpisodeLink2>>},
        r \in UNION {[1..n -> RelatedArticles] : n \in 0..MaxRelated}}

\* extractEpisodeInfo of the element around a link: id, title and url of its
\* first anchor (the title, which nothing reads, is left out)
extractEpisodeInfo(href) ==
    [id |-> extractAnimeId(normalizeUrl(href)), url |-> normalizeUrl(href)]

\* seasonText.match(/season\s*(\d+)/i) and parseInt of its group; 1 without a match
SeasonNumOf(heading) ==
    LET hits == {i \in 1..Len(heading) :
                    /\ heading[i] \in {"season", "Season", "SEASON"}
                    /\ \E j \in (i + 1)..Len(heading) :
                          /\ IsDigit(heading[j])
                          /\ \A k \in (i + 1)..(j - 1) : heading[k] = " "} IN
    IF hits = {} THEN 1
    ELSE LET i == CHOOSE a \in hits : \A b \in hits : a <= b
             j == CHOOSE a \in (i + 1)..Len(heading) :
                      IsDigit(heading[a]) /\ \A k \in (i + 1)..(a - 1) : heading[k] = " " IN
         parseInt(SubSeq(heading, j, DigitRunEnd(heading, j)))

RECURSIVE FirstHeading(_)
\* $(seasonEl).find('[class*="season-title"], h2, h3').first().text(): the
\* first heading inside the container in document order, its own before
\* those of the containers nested in it
FirstHeading(cs) ==
    IF Len(cs) = 0 THEN HeadingNone
    ELSE IF Len(Head(cs).heading) > 0 THEN Head(cs).heading
    ELSE IF Len(FirstHeading(Head(cs).inner)) > 0 THEN FirstHeading(Head(cs).inner)
    ELSE FirstHeading(Tail(cs))

RECURSIVE LinksInside(_)
\* $(seasonEl).find('a[href*="/episode/"]'): the links of all descendants
LinksInside(cs) ==
    IF Len(cs) = 0 THEN <<>>
    ELSE Head(cs).links \o LinksInside(Head(cs).inner) \o LinksInside(Tail(cs))

RECURSIVE Selected(_)
\* $('[class*="season"], .episodes-list, [id*="season"]'): every container,
\* nested ones included, in document order
Selected(cs) ==
    IF Len(cs) = 0 THEN <<>>
    ELSE <<Head(cs)>> \o Selected(Head(cs).inner) \o Selected(Tail(cs))

RECURSIVE EpisodesOf(_, _)
\* the inner each(): one episode per link whose extractEpisodeInfo has an id
EpisodesOf(links, seasonNum) ==
    IF Len(links) = 0 THEN <<>>
    ELSE (IF extractEpisodeInfo(Head(links)).id # NoId
          THEN <<[id |-> extractEpisodeInfo(Head(links)).id,
                  url |-> extractEpisodeInfo(Head(links)).url,
                  season |-> seasonNum]>>
          ELSE <<>>) \o EpisodesOf(Tail(links), seasonNum)

\* seasons[seasonNum] = episodes
SetSeason(seasons, seasonNum, episodes) ==
    [n \in DOMAIN seasons \cup {seasonNum} |-> IF n = seasonNum THEN episodes ELSE seasons[n]]

RECURSIVE SeasonLoop(_, _)
\* the each() over the season containers left: seasons and allEpisodes
SeasonLoop(selected, acc) ==
    IF Len(selected) = 0 THEN acc
    ELSE LET seasonNum == SeasonNumOf(FirstHeading(<<Head(selected)>>))
             episodes == EpisodesOf(LinksInside(<<Head(selected)>>), seasonNum) IN
         SeasonLoop(Tail(selected),
                    [seasons |-> IF Len(episodes) > 0
                                 THEN SetSeason(acc.seasons, seasonNum, episodes)
                                 ELSE acc.seasons,
                     allEpisodes |-> acc.allEpisodes \o episodes])

\* the links $('a[href*="/episode/"]') finds in the whole page
AllLinks(page) == LinksInside(page.containers) \o page.loose

\* an episode of the fallback: extractEpisodeInfo sets no season
LooseEpisode(href) == [id |-> extractEpisodeInfo(href).id, url |-> extractEpisodeInfo(href).url, season |-> NullNum]

RECURSIVE LooseEpisodes(_)
LooseEpisodes(links) ==
    IF Len(links) = 0 THEN <<>>
    ELSE (IF extractEpisodeInfo(Head(links)).id # NoId THEN <<LooseEpisode(Head(links))>> ELSE <<>>)
             \o LooseEpisodes(Tail(links))

\* allEpisodes.forEach: group by ep.season || 1
GroupBySeason(allEpisodes) ==
    LET num(ep) == IF ep.season = NullNum \/ ep.season = 0 THEN 1 ELSE ep.season
        nums == {num(allEpisodes[i]) : i \in 1..Len(allEpisodes)} IN
    [n \in nums |-> SelectSeq(allEpisodes, LAMBDA ep : num(ep) = n)]

\* totalEpisodes and seasons of the ContentDetail built from a page
EpisodeData(page) ==
    IF page.type = "series" \/ page.type = "cartoon"
    THEN LET found == SeasonLoop(Selected(page.containers), [seasons |-> <<>>, allEpisodes |-> <<>>]) IN
         IF DOMAIN found.seasons = {}
         THEN LET allEpisodes == found.allEpisodes \o LooseEpisodes(AllLinks(page)) IN
              [totalEpisodes |-> Len(allEpisodes), seasons |-> GroupBySeason(allEpisodes)]
         ELSE [totalEpisodes |-> Len(found.allEpisodes), seasons |-> found.seasons]
    ELSE [totalEpisodes |-> 0, seasons |-> <<>>]

\* idData.id, idData.type: idData is the string extractAnimeId returned, and a
\* string has neither property
IdDataProperty(idData, property) == Undefined

\* the extractAnimeCard of the detail scraper's own file: the card of an
\* article, or null (title and poster, which nothing reads, are left out)
RelatedCard(href) ==
    IF Len(href) = 0 THEN Undefined
    ELSE IF extractAnimeId(href) = NoId THEN Undefined
    ELSE [id |-> IdDataProperty(extractAnimeId(href), "id"),
          type |-> IdDataProperty(extractAnimeId(href), "type")]

RECURSIVE Related(_)
\* the each() over the related articles: if (anime && anime.id) related.push(anime)
Related(articles) ==
    IF Len(articles) = 0 THEN <<>>
    ELSE (IF ~IsUndefined(RelatedCard(Head(articles))) /\ ~IsUndefined(RelatedCard(Head(articles)).id)
          THEN <<RelatedCard(Head(articles))>>
          ELSE <<>>) \o Related(Tail(articles))

\* scrapeAnimeDetails has fetched its page and builds the ContentDetail
DetailExtracted ==
    /\ applied = "none"
    /\ applied' = "scrapeAnimeDetails"
    /\ output' = [totalEpisodes |-> EpisodeData(input).totalEpisodes,
                  seasons |-> EpisodeData(input).seasons,
                  related |-> Related(input.related)]
    /\ UNCHANGED <<input, cache, dvars, svars, evars, bvars>>

(***************************************************************************)
(* utils/scraper.js: extractPagination                                     *)
(*                                                                         *)
(* A document is the sequence of its pagination elements in document       *)
(* order; an element holds its text as a tuple of characters and which of  *)
(* the selectors it matches.                                               *)
(***************************************************************************)

\* the most pagination elements a document of the model holds
MaxElements == 2

\* the texts of the elements
PageTexts == {<<"1">>, <<"5">>, <<"1", "2">>, <<"-", "3">>, <<" ", "0">>, <<"N", "e", "x", "t">>}

\* current: '.current, .page-numbers.current, .pagination .active';
\* number: '.page-numbers, .pagination a'; next and prev: the next/prev selectors
PageElements ==
    {[text |-> t, current |-> k[1], number |-> k[2], next |-> k[3], prev |-> k[4]] :
        t \in PageTexts,
        k \in {<<TRUE, FALSE, FALSE, FALSE>>,    \* <span class="current">
               <<FALSE, TRUE, FALSE, FALSE>>,    \* <a class="page-numbers">
               <<TRUE, TRUE, FALSE, FALSE>>,     \* <span class="page-numbers current">
               <<FALSE, TRUE, TRUE, FALSE>>,     \* <a class="next page-numbers">
               <<FALSE, FALSE, FALSE, TRUE>>}}   \* <a class="prev">

PaginationDocs == UNION {[1..n -> PageElements] : n \in 0..MaxElements}

NaN == [nan |-> TRUE, value |-> 0]

Num(n) == [nan |-> FALSE, value |-> n]

\* parseInt(text): leading white space, an optional sign, then decimal
\* digits; NaN when no digit follows
parseIntText(text) ==
    LET starts == {i \in 1..Len(text) : text[i] # " "} IN
    IF starts = {} THEN NaN
    ELSE LET a == CHOOSE i \in starts : \A j \in starts : i <= j
             signed == text[a] \in {"-", "+"}
             d == IF signed THEN a + 1 ELSE a IN
         IF d > Len(text) \/ ~IsDigit(text[d]) THEN NaN
         ELSE IF text[a] = "-" THEN Num(0 - parseInt(SubSeq(text, d, DigitRunEnd(text, d))))
         ELSE Num(parseInt(SubSeq(text, d, DigitRunEnd(text, d))))

RECURSIVE TextOf(_)
\* .text() of a set of elements: their texts joined in document order
TextOf(elements) ==
    IF Len(elements) = 0 THEN <<>> ELSE Head(elements).text \o TextOf(Tail(elements))

RECURSIVE MaxOf(_, _)
\* Math.max(...numbers, least)
MaxOf(numbers, least) ==
    IF Len(numbers) = 0 THEN least
    ELSE LET rest == MaxOf(Tail(numbers), least) IN
         IF Head(numbers) > rest THEN Head(numbers) ELSE rest

DefaultPagination ==
    [currentPage |-> 1, totalPages |-> 1, hasNextPage |-> FALSE, hasPrevPage |-> FALSE]

\* extractPagination($)
extractPagination(elements) ==
    LET currentPageEl == SelectSeq(elements, LAMBDA e : e.current)
        parsed == parseIntText(TextOf(currentPageEl))
        currentPage == IF Len(currentPageEl) > 0 /\ ~parsed.nan /\ parsed.value # 0
                       THEN parsed.value ELSE 1
        numbered == SelectSeq(elements, LAMBDA e : e.number)
        pageNumbers == [i \in 1..Len(numbered) |->
                           IF parseIntText(numbered[i].text).nan THEN 0
                           ELSE parseIntText(numbered[i].text).value] IN
    [currentPage |-> currentPage,
     totalPages |-> IF Len(pageNumbers) > 0 THEN MaxOf(pageNumbers, currentPage) ELSE 1,
     hasNextPage |-> \E i \in 1..Len(elements) : elements[i].next,
     hasPrevPage |-> \E i \in 1..Len(elements) : elements[i].prev]

\* a listing operation hands its parsed page to extractPagination
PaginationExtracted ==
    /\ applied = "none"
    /\ applied' = "extractPagination"
    /\ output' = extractPagination(input)
    /\ UNCHANGED <<input, cache, dvars, svars, evars, bvars>>

(***************************************************************************)
(* Properties of scrapeAnimeDetails                                        *)
(***************************************************************************)

\* the outcome of the i-th fetch of the running call
DFetch(i) == fetchPage(dlog[i])

DFetch404(i) == ~DFetch(i).ok /\ Includes(DFetch(i).message, "404")

DFetchOtherError(i) == ~DFetch(i).ok /\ ~Includes(DFetch(i).message, "404")

\* the call ran to a result that was scraped, not taken from the cache
DScraped == dpc = "done" /\ dresult.ok /\ Len(dfetches) > 0

\* a type of the data model names one upstream url shape
TypeNamesShape(t, shape) ==
    \/ t = "series" /\ shape = "series"
    \/ t = "movie" /\ shape = "movies"
    \/ t = "cartoon" /\ shape = "cartoons"

\* C1: without a type hint the probes are /series/, /movies/, /cartoons/ in
\* that order, a probe is issued only after the one before it returned 404,
\* and when /series/ returned 404 and /movies/ succeeded the call has ended
\* after exactly two fetches with type "movie".
C1_AutoProbeOrder ==
    (dpc # "idle" /\ dtype = NullType) =>
        /\ Len(dfetches) <= 3
        /\ \A i \in 1..Len(dfetches) : dfetches[i] = PageUrl(<<"series", "movies", "cartoons">>[i], did)
        /\ \A i \in 1..Len(dlog) : i < Len(dlog) => DFetch404(i)
        /\ (dpc = "probe") => Len(dfetches) = tryIdx - 1
        /\ (Len(dlog) >= 2 /\ DFetch404(1) /\ DFetch(2).ok) =>
              /\ dpc = "done"
              /\ dresult.ok
              /\ dresult.value.type = "movie"
              /\ Len(dfetches) = 2

C1_Witness ==
    /\ dpc = "done"
    /\ dtype = NullType
    /\ Len(dlog) = 2
    /\ DFetch404(1)
    /\ DFetch(2).ok
    /\ dresult.ok
    /\ dresult.value.type = "movie"

\* C2: a fetch that failed with an error other than a 404 is the last fetch
\* of its call, and the call has thrown an error whose message is the wrap
\* prefix followed by the message of that fetch.
C2_FailFast ==
    \A i \in 1..Len(dlog) :
        DFetchOtherError(i) =>
            /\ i = Len(dlog)
            /\ dpc = "done"
            /\ ~dresult.ok
            /\ dresult.message = <<"Failed to scrape content details: ">> \o DFetch(i).message

C2_Witness ==
    /\ dpc = "done"
    /\ dtype = "movie"
    /\ Len(dlog) = 3
    /\ DFetchOtherError(3)
    /\ ~dresult.ok

\* C3 (as claimed): with a type hint the first fetch targets the hinted url,
\* the auto-probe sequence follows if and only if that fetch returned 404,
\* the call fetches at most four times and the returned type names the url
\* shape of the fetch that succeeded.
C3_HintThenAutoProbe ==
    (dpc # "idle" /\ dtype # NullType /\ Len(dlog) >= 1) =>
        /\ dfetches[1] = HintUrl(did, dtype)
        /\ (dpc = "probe" \/ Len(dlog) >= 2) <=> DFetch404(1)
        /\ \A i \in 2..Len(dfetches) : dfetches[i] = PageUrl(<<"series", "movies", "cartoons">>[i - 1], did)
        /\ Len(dfetches) <= 4
        /\ DScraped => TypeNamesShape(dresult.value.type, dfetches[Len(dfetches)].shape)

\* C4 (as claimed): a returned or cached object has a type of the data model,
\* and a scraped object's type names the url shape of its successful fetch.
C4_TypeIsResolvedShape ==
    /\ \A k \in ContentKeys :
          ~IsUndefined(cache[k]) => cache[k].type \in {"series", "movie", "cartoon"}
    /\ (dpc = "done" /\ dresult.ok) => dresult.value.type \in {"series", "movie", "cartoon"}
    /\ DScraped => TypeNamesShape(dresult.value.type, dfetches[Len(dfetches)].shape)

\* C5: a call that starts while its key has a live entry ends at once with
\* the stored object, without a fetch and without touching the cache; the
\* stored object is the one the scraping call returned.
C5_CacheHitIdempotent ==
    [][/\ (dpc = "idle" /\ dpc' # "idle" /\ ~IsUndefined(cache[ContentKey(did', dtype')])) =>
            /\ dpc' = "done"
            /\ dresult' = Returned(cache[ContentKey(did', dtype')])
            /\ dfetches' = <<>>
            /\ cache' = cache
       /\ (dpc \in {"hint", "probe"} /\ dpc' = "done" /\ dresult'.ok) =>
            cache'[ContentKey(did, dtype)] = dresult'.value]_vars

C5_Witness ==
    /\ dpc = "done"
    /\ dresult.ok
    /\ dfetches = <<>>
    /\ dresult.value = cache[ContentKey(did, dtype)]

\* C6: a call that has thrown has thrown one wrapped error, either the
\* not-found error after 404s only or the message of its last fetch, and its
\* cache key has no entry.
C6_FailureNotCached ==
    (dpc = "done" /\ ~dresult.ok) =>
        /\ IsUndefined(cache[ContentKey(did, dtype)])
        /\ Len(dlog) >= 1
        /\ \/ /\ \A i \in 1..Len(dlog) : DFetch404(i) \/ (i = 1 /\ DFetch(1).ok)
              /\ dresult.message = <<"Failed to scrape content details: ">> \o NotFoundMessage(did)
           \/ /\ DFetchOtherError(Len(dlog))
              /\ dresult.message = <<"Failed to scrape content details: ">> \o DFetch(Len(dlog)).message

C6_Witness ==
    /\ dpc = "done"
    /\ ~dresult.ok
    /\ Len(dlog) = 3
    /\ \A i \in 1..3 : DFetch404(i)
    /\ IsUndefined(cache[ContentKey(did, dtype)])

\* the objects a call without a type argument builds from a document
BuiltWithoutType(id, doc) ==
    {DetailData(id, DetectedOf(types[i]), [raw |-> doc]) : i \in 1..Len(types)}

\* C29: what scrapeAnimeDetails returns for an id does not depend on which
\* call filled the cache: the type arguments null and 'auto' share the key
\* content:{id}:auto, and the object stored under it is the one the call
\* without a type builds from the page, with the same type (and with it the
\* same seasons and totalEpisodes), whichever of the two calls stored it.
C29_SameResultForSameKey ==
    \A id \in DetailIds :
        /\ ContentKey(id, NullType) = ContentKey(id, "auto")
        /\ ~IsUndefined(cache[ContentKey(id, "auto")]) =>
              cache[ContentKey(id, "auto")] \in BuiltWithoutType(id, cache[ContentKey(id, "auto")].doc)

(***************************************************************************)
(* Properties of scrapeEpisodeStreaming                                    *)
(***************************************************************************)

\* the outcome of the i-th fetch of the running call
SFetch(i) == fetchPage(slog[i])

SFetch404(i) == ~SFetch(i).ok /\ Includes(SFetch(i).message, "404")

SFetchOtherError(i) == ~SFetch(i).ok /\ ~Includes(SFetch(i).message, "404")

\* the order of url shapes the resolver is to follow for the ids of the model
C7_Order(episodeId) ==
    IF episodeId = <<"s", "h", "o", "w", "-", "1", "x", "1">>
    THEN <<"episode", "series", "movies">>
    ELSE <<"series", "movies", "episode">>

\* C7: the fetches of a resolution follow the order of its id shape, one at
\* a time, there are at most three, none follows a success and a second one
\* follows only a 404; when /episode/show-1x1/ returned 404 and
\* /series/show-1x1/ a page with one iframe, the call has ended with season 1,
\* episode 1 and one source.
C7_StreamProbeOrder ==
    (spc # "idle") =>
        /\ Len(sfetches) <= 3
        /\ \A i \in 1..Len(sfetches) : sfetches[i] = PageUrl(C7_Order(sid)[i], sid)
        /\ \A i \in 1..Len(slog) : i < Len(slog) => ~SFetch(i).ok
        /\ Len(slog) >= 2 => SFetch404(1)
        /\ (spc = "first" => Len(sfetches) = 0)
        /\ (spc = "second" => Len(sfetches) = 1)
        /\ (spc = "third" => Len(sfetches) = 2)
        /\ (/\ sid = <<"s", "h", "o", "w", "-", "1", "x", "1">>
            /\ Len(slog) = 2
            /\ SFetch404(1)
            /\ slog[2] = [kind |-> "http", status |-> 200, data |-> PageOneIframe]) =>
              /\ spc = "done"
              /\ sresult.ok
              /\ sresult.value.season = 1
              /\ sresult.value.episode = 1
              /\ Len(sresult.value.sources) = 1

C7_Witness ==
    /\ spc = "done"
    /\ sid = IdShow1x1
    /\ sfetches = <<PageUrl("episode", IdShow1x1), PageUrl("series", IdShow1x1)>>
    /\ SFetch404(1)
    /\ slog[2].data = PageOneIframe
    /\ sresult.ok
    /\ sresult.value.season = 1
    /\ Len(sresult.value.sources) = 1

\* C8 (as claimed): a fetch of the resolver that failed with an error other
\* than a 404 is the last fetch of its call, and the call has failed.
C8_StreamFailFast ==
    \A i \in 1..Len(slog) :
        SFetchOtherError(i) =>
            /\ i = Len(slog)
            /\ spc = "done"
            /\ ~sresult.ok

\* C9 (as claimed): no entry under an episode key has an empty sources list.
C9_NoEmptySourcesCached ==
    \A k \in EpisodeKeys :
        ~IsUndefined(cache[k]) => Len(cache[k].sources) > 0

\* season and episode are both null or both integers
BothOrNeither == (output.season = NullNum) <=> (output.episode = NullNum)

\* C25: season and episode come from the first <digits>x<digits> pattern of
\* the page title and, only when the title has none, from the episode id;
\* when neither has the pattern both are null, and season and episode are
\* either both null or both integers.
C25_TitleThenId ==
    applied = "scrapeWithFetch" =>
        LET inTitle == MatchTitleSxE(input.title)
            inId == MatchIdSxE(input.episodeId) IN
        /\ inTitle.found => output = [season |-> inTitle.season, episode |-> inTitle.episode]
        /\ (~inTitle.found /\ inId.found) => output = [season |-> inId.season, episode |-> inId.episode]
        /\ (~inTitle.found /\ ~inId.found) => output = [season |-> NullNum, episode |-> NullNum]
        /\ BothOrNeither

(***************************************************************************)
(* Properties of GET /embed/:id                                            *)
(***************************************************************************)

\* the step in which the handler leaves the race, or ends it as it starts
RaceEnds == epc \in {"stream", "race"} /\ epc' = "responded" /\ Len(cand') > 0

\* the url the player shell shows for a resolved url
ShownFor(u) == IF u[1] = "http://" THEN <<"https://">> \o Tail(u) ELSE u

\* C10: when the race ends and an attempted candidate has produced a url,
\* the response is the player for the url of a fulfilled candidate and that
\* url is stored under embed:{id}:{type}; the race ends with the error page
\* only when every attempted candidate was rejected.
C10_RaceFirstSuccessWins ==
    [][RaceEnds =>
        /\ (\E i \in 1..Len(cand') : cand'[i].status = "fulfilled") =>
              /\ eresp'.kind = "player"
              /\ \E i \in 1..Len(cand') :
                    /\ cand'[i].status = "fulfilled"
                    /\ cache'[<<"embed", eid, etype>>] = [src |-> cand'[i].url]
                    /\ eresp'.iframeSrc = ShownFor(cand'[i].url)
        /\ eresp'.kind = "error" => \A i \in 1..Len(cand') : cand'[i].status = "rejected"]_vars

C10_Witness ==
    /\ epc = "responded"
    /\ Len(cand) = 3
    /\ cand[1].status = "rejected"
    /\ cand[2].status = "rejected"
    /\ cand[3].status = "fulfilled"
    /\ eresp.kind = "player"
    /\ eresp.iframeSrc = cand[3].url
    /\ cache[EmbedKey(eid, etype)] = [src |-> cand[3].url]

\* u contains the domain of the excluded provider
IsExcludedProvider(u) == Includes(u, "vidstreaming.xyz")

\* C11: no url containing vidstreaming.xyz is served in the player or stored
\* under an embed cache key, whichever path produced it: a direct source, a
\* redirect page or the movie page.
C11_ExcludedProviderNeverServed ==
    /\ (epc = "responded" /\ eresp.kind = "player") => ~IsExcludedProvider(eresp.iframeSrc)
    /\ \A k \in EmbedKeys : CacheHit(cache[k]) => ~IsExcludedProvider(cache[k].src)

AllAttemptsFailed == <<"No working video source found (all attempts failed)">>

\* C12: when every candidate the race attempted has been rejected, the
\* request ends with the one 'No working video source found (all attempts
\* failed)' error, rendered as the error page, and the cache is left as it was.
C12_AllCandidatesFail ==
    [][(RaceEnds /\ \A i \in 1..Len(cand') : cand'[i].status = "rejected") =>
        /\ eresp'.kind = "error"
        /\ eresp'.message = AllAttemptsFailed
        /\ cache' = cache]_vars

C12_Witness ==
    /\ epc = "responded"
    /\ Len(cand) = 3
    /\ \A i \in 1..3 : cand[i].status = "rejected"
    /\ eresp = ErrorPage(AllAttemptsFailed)
    /\ ~CacheHit(cache[EmbedKey(eid, etype)])

\* the handler takes up a request
RequestArrives == epc = "idle" /\ epc' # "idle"

\* the cache holds an entry under the key
LiveEntry(key) == ~IsUndefined(cache[key])

\* C13: the cache lookup under embed:{id}:{type} comes before every network
\* action of the request: when the key holds a live entry as the request
\* arrives, the handler answers in that step with the player for the cached
\* url, without starting the detail or the streaming scraper, a fetch or a
\* race, and leaves the cache as it is.
C13_CacheBeforeNetwork ==
    [][(RequestArrives /\ LiveEntry(EmbedKey(eid', etype'))) =>
        /\ epc' = "responded"
        /\ eresp' = generateCleanPlayer(cache[EmbedKey(eid', etype')].src)
        /\ dpc' = "idle" /\ dfetches' = <<>>
        /\ spc' = "idle" /\ sfetches' = <<>>
        /\ cand' = <<>>
        /\ cache' = cache]_vars

\* a request answered from the cache: the handler never assigned iframeSrc
C13_Witness ==
    /\ epc = "responded"
    /\ iframeSrc = NoUrl
    /\ cand = <<>>
    /\ eresp.kind = "player"
    /\ dpc = "idle" /\ spc = "idle"
    /\ LiveEntry(EmbedKey(eid, etype))
    /\ eresp = generateCleanPlayer(cache[EmbedKey(eid, etype)].src)

\* a candidate still in flight settles after the response has been produced
LateSettles ==
    /\ epc = "responded"
    /\ Len(cand') = Len(cand)
    /\ \E i \in 1..Len(cand) : cand[i].status = "pending" /\ cand'[i].status # "pending"

\* C14: once the race has produced a url, a later completion of another
\* candidate, fulfilled or rejected, changes neither the response nor the
\* cache, and the handler stays completed: the rejection reaches no one.
C14_LateCompletionsIgnored ==
    [][LateSettles => (eresp' = eresp /\ cache' = cache /\ epc' = "responded" /\ iframeSrc' = iframeSrc)]_vars

\* the race was won by an earlier candidate; since then one of the others
\* has fulfilled and one has rejected
C14_Witness ==
    /\ epc = "responded"
    /\ eresp.kind = "player"
    /\ \E i, j, k \in 1..Len(cand) :
          /\ cand[i].status = "fulfilled"
          /\ eresp = generateCleanPlayer(cand[i].url)
          /\ cand[j].status = "late-fulfilled"
          /\ cand[k].status = "late-rejected"
    /\ cache[EmbedKey(eid, etype)] = [src |-> iframeSrc]

\* the handler has sent an HTML document: the player shell or the error page
HtmlResponded == epc = "responded" /\ eresp.kind \in {"player", "error"}

\* C15: every request ends with an HTML response, the player shell or the
\* error page, whichever upstream step fails: a handler that has left its
\* waiting positions has sent one of the two, and a running handler
\* eventually does.
C15_AlwaysHtml ==
    /\ [](epc \in {"idle", "detail", "movie", "stream", "race", "responded"})
    /\ [](epc = "responded" => HtmlResponded)
    /\ (epc # "idle") ~> HtmlResponded

\* the error page after a step of each kind failed: type detection, then the
\* movie page, then all three episode probes
C15_Witness ==
    /\ HtmlResponded
    /\ eresp.kind = "error"
    /\ etype = "auto"
    /\ contentType = "episode"
    /\ cand = <<>>

Maintenance == "RyanCloud Under Maintenance"

\* the episode scrape of the request failed on a fetch that timed out
ProbeTimedOut ==
    /\ epc = "stream" /\ epc' = "responded"
    /\ spc = "done" /\ ~sresult.ok
    /\ slog[Len(slog)].kind = "network"

\* every candidate of the race was rejected because its request timed out
RaceTimedOut ==
    /\ RaceEnds
    /\ \A i \in 1..Len(cand') :
          cand'[i].status = "rejected" /\ Includes(cand'[i].message, "timeout")

\* C16: a request that fails because its upstream fetches timed out, be they
\* episode probes or race candidates, renders the maintenance page; the
\* 'Video Not Available' page is kept for failures that are neither a 404
\* nor a timeout.
C16_TimeoutIsMaintenance ==
    [][(ProbeTimedOut \/ RaceTimedOut) =>
        (eresp'.kind = "error" /\ eresp'.errorTitle = Maintenance)]_vars

(***************************************************************************)
(* Properties of the listings                                              *)
(***************************************************************************)

\* a listing operation returns the object it built from the page in input,
\* now or when it stored it
Listed ==
    /\ applied \in {"scrapeCategory", "scrapeSearch", "scrapeHome"}
    /\ "cards" \in DOMAIN output

\* the id a list item links to: that of its a.lnk-blk for scrapeSearch, that
\* of its first content link for the other two
LinkedId(li) ==
    IF applied = "scrapeSearch"
    THEN extractAnimeId(normalizeUrl(FirstHref(li.anchors, IsLnkBlk)))
    ELSE extractAnimeId(normalizeUrl(FirstHref(li.anchors, IsContentAnchor)))

\* the card made of the first item of the document that links to id
FirstCardOf(id) ==
    LET li == input[CHOOSE i \in 1..Len(input) :
                       /\ LinkedId(input[i]) = id
                       /\ \A j \in 1..(i - 1) : LinkedId(input[j]) # id] IN
    [id |-> id,
     title |-> IF applied = "scrapeSearch" THEN li.entry ELSE li.alt,
     url |-> normalizeUrl(FirstHref(li.anchors, IsLnkBlk))]

NoTwoCardsOfOneId ==
    \A i, j \in 1..Len(output.cards) : output.cards[i].id = output.cards[j].id => i = j

\* C17: the cards a listing operation returns never hold one id twice, and
\* the card kept for an id is made of the first item in document order that
\* links to that id.
C17_ListingDedup ==
    Listed =>
        /\ NoTwoCardsOfOneId
        /\ \A i \in 1..Len(output.cards) :
              LET card == output.cards[i] IN
              /\ card.title = FirstCardOf(card.id).title
              /\ card.url = FirstCardOf(card.id).url

\* the class of the first item of the document a card is made of
ClassOfCard(card) ==
    LET Made(li) == IF applied = "scrapeSearch"
                    THEN /\ normalizeUrl(FirstHref(li.anchors, IsLnkBlk)) = card.url
                         /\ li.entry = card.title
                    ELSE /\ ~IsUndefined(extractAnimeCard(li))
                         /\ extractAnimeCard(li).url = card.url
                         /\ extractAnimeCard(li).title = card.title IN
    input[CHOOSE i \in 1..Len(input) : Made(input[i]) /\ \A j \in 1..(i - 1) : ~Made(input[j])].class

\* the type of every search result is that of the class marker of its item
SearchTypeByClass ==
    \A i \in 1..Len(output.cards) :
        /\ ClassOfCard(output.cards[i]) = "type-series" => output.cards[i].type = "Series"
        /\ ClassOfCard(output.cards[i]) = "type-movies" => output.cards[i].type = "Movie"

\* the lists of the home page follow the class markers and share no card
HomeSplitByClass ==
    /\ \A i \in 1..Len(output.latestSeries) : ClassOfCard(output.latestSeries[i]) # "type-movies"
    /\ \A i \in 1..Len(output.latestMovies) : ClassOfCard(output.latestMovies[i]) # "type-series"
    /\ \A i \in 1..Len(output.latestSeries), j \in 1..Len(output.latestMovies) :
          output.latestSeries[i] # output.latestMovies[j]

\* C21: an item whose class marker and url disagree about the type is
\* classified by the class marker: in the type of a search result and in the
\* split of the home page into latestSeries and latestMovies, where no item
\* lands in both lists.
C21_ClassMarkerWins ==
    /\ (Listed /\ applied = "scrapeSearch") => SearchTypeByClass
    /\ (Listed /\ applied = "scrapeHome") => HomeSplitByClass

\* the places of a url where /series/, /movies/, /movie/ or /cartoons/ is
\* followed by a segment
SlugPlaces(link) ==
    {i \in 1..(Len(link) - 1) : link[i] \in {"series", "movies", "movie", "cartoons"}}

\* C24: extractAnimeId returns the path segment that follows /series/,
\* /movies/, /movie/ or /cartoons/ in a url and null exactly for the urls
\* without such a segment; the card extractor skips an item whose id is null.
C24_AnimeIdIsSlug ==
    applied = "extractAnimeId" =>
        /\ SlugPlaces(input) # {} =>
              output.id = input[(CHOOSE i \in SlugPlaces(input) : \A j \in SlugPlaces(input) : i <= j) + 1]
        /\ SlugPlaces(input) = {} <=> output.id = NoId
        /\ output.id = NoId => IsUndefined(output.card)

\* the card extractor skips an item whose id is null
NullIdSkipped ==
    applied = "extractAnimeId" => (output.id = NoId => IsUndefined(output.card))

(***************************************************************************)
(* Properties of the episode lists                                         *)
(***************************************************************************)

RECURSIVE SumOfLengths(_, _)
\* the sum of the lengths of the lists seasons holds under the keys given
SumOfLengths(seasons, keys) ==
    IF keys = {} THEN 0
    ELSE LET k == CHOOSE n \in keys : TRUE IN
         Len(seasons[k]) + SumOfLengths(seasons, keys \ {k})

\* C18: in every ContentDetail, totalEpisodes is the sum of the lengths of
\* the episode lists stored in seasons, for any number, nesting and numbering
\* of the season containers.
C18_TotalIsSumOfSeasons ==
    applied = "scrapeAnimeDetails" =>
        output.totalEpisodes = SumOfLengths(output.seasons, DOMAIN output.seasons)

\* an href /episode/<slug>/: no series, movies or movie segment
IsPlainEpisodeLink(href) ==
    /\ Len(href) = 2
    /\ href[1] = "episode"

\* some season of the result holds an episode of this id
Counted(id) ==
    \E n \in DOMAIN output.seasons : \E k \in 1..Len(output.seasons[n]) : output.seasons[n][k].id = id

\* C22: for a node whose first anchor links to /episode/<slug>/ the episode
\* extractor returns an episode whose id is <slug>, the last path segment,
\* and the detail scraper keeps that episode; no episode with a null or
\* empty id is returned.
C22_EpisodeIdIsSlug ==
    applied = "scrapeAnimeDetails" =>
        \A i \in 1..Len(AllLinks(input)) :
            LET href == AllLinks(input)[i] IN
            /\ extractEpisodeInfo(href).id # NoId
            /\ IsPlainEpisodeLink(href) =>
                  /\ extractEpisodeInfo(href).id = href[Len(href)]
                  /\ input.type \in {"series", "cartoon"} => Counted(href[Len(href)])

\* the articles of the related-content container that link to content
ContentArticles == SelectSeq(input.related, IsContentHref)

\* C23: the related list of a detail result holds one card per article of
\* the related-content container that links to a content url, with the id of
\* that url, in document order.
C23_RelatedCards ==
    applied = "scrapeAnimeDetails" =>
        /\ Len(output.related) = Len(ContentArticles)
        /\ \A i \in 1..Len(ContentArticles) : output.related[i].id = ContentArticles[i][2]

(***************************************************************************)
(* Properties of extractPagination                                         *)
(***************************************************************************)

\* C19: extractPagination always returns currentPage >= 1 and totalPages >=
\* currentPage, whatever texts the pagination elements hold, and the
\* defaults {1, 1, false, false} for a document without pagination markup.
C19_PaginationBounds ==
    applied = "extractPagination" =>
        /\ output.currentPage >= 1
        /\ output.totalPages >= output.currentPage
        /\ Len(input) = 0 => output = DefaultPagination

(***************************************************************************)
(* Properties of the browser manager                                       *)
(***************************************************************************)

\* the caller runs a page-lifecycle operation: it creates, uses or closes a
\* page, or closes the browser
InPageOperation(c) == bpc[c] \in {"newPage", "page", "pageClose", "closing", "closeBrowser"}

\* C20: at most one page-lifecycle operation is in progress at any time: two
\* withPage callers never run their page operations together, and close()
\* never runs while a page operation is in progress.
C20_OnePageOperation ==
    \A c1, c2 \in BrowserCallers : (InPageOperation(c1) /\ InPageOperation(c2)) => c1 = c2

\* the caller is between the resolution of its acquire() and its release()
HoldsLock(c) == bpc[c] \in {"launch", "newContext", "initPage", "relaunch", "closing", "closeBrowser"}

\* the closure of a call that is still waiting is queued
LiveWaiter == \E i \in 1..Len(queue) : ~queue[i].settled

\* C26: a waiter whose acquire() timed out is removed from the queue and never
\* takes the lock afterwards: once every caller that acquired the lock has
\* released it and no live waiter remains, locked is false.
C26_TimedOutWaiterLeaves ==
    /\ \A i \in 1..Len(queue) : ~queue[i].settled
    /\ ((\A c \in BrowserCallers : ~HoldsLock(c)) /\ ~LiveWaiter) => ~locked

\* at most one caller is between its acquire() and its release(), and the
\* lock is taken while one is
OneHolder ==
    /\ \A c1, c2 \in BrowserCallers : (HoldsLock(c1) /\ HoldsLock(c2)) => c1 = c2
    /\ \A c \in BrowserCallers : HoldsLock(c) => locked

\* a caller that leaves the body of withLock, by return or by throw, has
\* released: the lock is free or has gone to the first closure of the queue
\* (after the close() of closeBrowser() the lock is that of the next manager)
ReleasedOnExit ==
    \A c \in BrowserCallers :
        (HoldsLock(c) /\ ~HoldsLock(c)') =>
            IF browserInstance /\ ~browserInstance' THEN ~locked' /\ queue' = <<>>
            ELSE IF Len(queue) = 0 THEN ~locked'
            ELSE /\ queue' = Tail(queue) \/ queue' = Tail(SettleWaiter(c))
                 /\ \A d \in BrowserCallers : HoldsLock(d)' =>
                        (d = Head(queue).caller /\ ~HoldsLock(d) /\ d # c)

\* C27: MutexLock grants the lock to at most one caller at a time under every
\* interleaving of launch() and close() calls: no acquire() resolves between
\* the resolution of another and its release(), and withLock releases the
\* lock also when its body throws.
C27_MutualExclusion == [](OneHolder) /\ [][ReleasedOnExit]_vars

\* launch() holds the lock, its body has thrown, and another call of launch()
\* or close() waits for the lock
C27_Witness ==
    \E c \in PageCallers, d \in BrowserCallers :
        /\ bpc[c] = "retryDelay"
        /\ HoldsLock(d)
        /\ browser = "null"
        /\ LiveWaiter

\* C28: a launch() that finds the browser disconnected relaunches and returns
\* a connected browser and context without a lock-acquire timeout.
C28_RelaunchReturns ==
    [][\A c \in PageCallers :
          (bpc[c] = "relaunch" /\ bpc'[c] # "relaunch") =>
              (bpc'[c] = "newPage" /\ browser' = "connected" /\ context' = "open")]_vars

(***************************************************************************)
(* Properties of checkBatchAvailability                                    *)
(***************************************************************************)

\* the call has returned one entry per id, in the order of the ids, and the
\* entry of an id says whether its scrapeAnimeDetails call succeeded
BatchResults ==
    /\ output.returned.ok
    /\ output.returned.value.success
    /\ Len(output.returned.value.results) = Len(input)
    /\ \A i \in 1..Len(input) :
          /\ output.returned.value.results[i].id = input[i]
          /\ output.returned.value.results[i].available = output.promises[i].detail.ok

\* the settling of one scrapeAnimeDetails call leaves the promises of the
\* other ids as they are
OthersUntouched ==
    (applied = "await Promise.all" /\ applied' = "await Promise.all") =>
        \A i, j \in 1..Len(input) :
            (i # j /\ output'.promises[i] # output.promises[i]) =>
                output'.promises[j] = output.promises[j]

\* C30: checkBatchAvailability(ids) always resolves with exactly one result
\* per id, in the order of the ids; the entry of an id has available = true
\* if and only if scrapeAnimeDetails(id) succeeded, and the failure of one id
\* neither fails the batch nor changes the entry of another id.
C30_BatchAlwaysResolves ==
    /\ [](applied = "checkBatchAvailability" => BatchResults)
    /\ [][OthersUntouched]_vars
    /\ (applied = "await Promise.all") ~> (applied = "checkBatchAvailability")

\* a batch of three ids has resolved, the second id failed and the others
\* succeeded
C30_Witness ==
    /\ applied = "checkBatchAvailability"
    /\ Len(input) = 3
    /\ output.returned.ok
    /\ output.returned.value.results[1].available
    /\ ~output.returned.value.results[2].available
    /\ output.returned.value.results[3].available

(***************************************************************************)
(* Specifications                                                          *)
(***************************************************************************)

\* nothing cached, no call and no request in progress
InitScrapers ==
    /\ cache = [k \in CacheKeys |-> Undefined]
    /\ DetailIdle
    /\ spc = "idle"
    /\ scaller = "client"
    /\ sid = IdShow
    /\ sfetches = <<>>
    /\ slog = <<>>
    /\ snav = NoNav
    /\ sresult = NoResult
    /\ epc = "idle"
    /\ eid = IdShow
    /\ etype = "auto"
    /\ contentType = "auto"
    /\ iframeSrc = NoUrl
    /\ cand = <<>>
    /\ eresp = NoResponse

\* no browser launched, the lock free, no caller at work
InitBrowser ==
    /\ locked = FALSE
    /\ queue = <<>>
    /\ browser = "null"
    /\ context = "null"
    /\ isConnected = FALSE
    /\ bpc = [c \in BrowserCallers |-> "idle"]
    /\ retryCount = [c \in BrowserCallers |-> 0]
    /\ heldContext = [c \in BrowserCallers |-> "none"]
    /\ browserInstance = FALSE

Init ==
    /\ InitScrapers
    /\ InitBrowser
    /\ input = NoDocument
    /\ applied = "none"
    /\ output = Undefined

NextDetail ==
    \/ \E id \in DetailIds, type \in TypeArgs :
            DetailCall(id, type, "client") /\ UNCHANGED <<svars, evars, fvars, bvars>>
    \/ \E resp \in Responses(DetailPages) : DetailHintFetched(resp) /\ UNCHANGED <<svars, evars, fvars, bvars>>
    \/ \E resp \in Responses(DetailPages) : DetailProbeFetched(resp) /\ UNCHANGED <<svars, evars, fvars, bvars>>
    \/ DetailReturn /\ UNCHANGED <<svars, evars, fvars, bvars>>
    \/ \E key \in ContentKeys : CacheExpire(key)

SpecDetail == Init /\ [][NextDetail]_vars

NextStream ==
    \/ \E id \in Ids, useBrowser \in BOOLEAN :
            StreamCall(id, useBrowser, "client") /\ UNCHANGED <<dvars, evars, fvars>>
    \/ \E ok \in BOOLEAN : StreamCreatePage(ok) /\ UNCHANGED <<dvars, evars, fvars>>
    \/ \E nav \in Navigations(BrowserPages) : StreamGotoSettled(nav) /\ UNCHANGED <<dvars, evars, fvars>>
    \/ \E nav \in Navigations(PlayerPages) : StreamIframeSettled(nav) /\ UNCHANGED <<dvars, evars, fvars>>
    \/ StreamPageClosed /\ UNCHANGED <<dvars, evars, fvars>>
    \/ BrowserDisconnects /\ UNCHANGED <<cache, dvars, svars, evars, fvars>>
    \/ \E resp \in Responses(StreamPages) : StreamFirstFetched(resp) /\ UNCHANGED <<dvars, evars, fvars, bvars>>
    \/ \E resp \in Responses(StreamPages) : StreamSecondFetched(resp) /\ UNCHANGED <<dvars, evars, fvars, bvars>>
    \/ \E resp \in Responses(StreamPages) : StreamThirdFetched(resp) /\ UNCHANGED <<dvars, evars, fvars, bvars>>
    \/ StreamReturn /\ UNCHANGED <<dvars, evars, fvars, bvars>>
    \/ \E key \in EpisodeKeys : CacheExpire(key)

SpecStream == Init /\ [][NextStream]_vars

NextEmbed ==
    \/ \E id \in EmbedIds, type \in EmbedTypes : EmbedRequest(id, type) /\ UNCHANGED <<fvars, bvars>>
    \/ \E resp \in Responses(DetailPages) : DetailHintFetched(resp) /\ UNCHANGED <<svars, evars, fvars, bvars>>
    \/ \E resp \in Responses(DetailPages) : DetailProbeFetched(resp) /\ UNCHANGED <<svars, evars, fvars, bvars>>
    \/ EmbedDetailDone /\ UNCHANGED <<fvars, bvars>>
    \/ \E resp \in Responses(MoviePages) : EmbedMovieFetched(resp) /\ UNCHANGED <<fvars, bvars>>
    \/ \E resp \in Responses(StreamPages) : StreamFirstFetched(resp) /\ UNCHANGED <<dvars, evars, fvars, bvars>>
    \/ \E resp \in Responses(StreamPages) : StreamSecondFetched(resp) /\ UNCHANGED <<dvars, evars, fvars, bvars>>
    \/ \E resp \in Responses(StreamPages) : StreamThirdFetched(resp) /\ UNCHANGED <<dvars, evars, fvars, bvars>>
    \/ EmbedStreamDone /\ UNCHANGED <<fvars, bvars>>
    \/ \E i \in 1..5, resp \in Responses(TrembedPages) : EmbedCandidateFetched(i, resp) /\ UNCHANGED <<fvars, bvars>>
    \/ \E i \in 1..5, resp \in Responses(TrembedPages) : EmbedLateCompletion(i, resp) /\ UNCHANGED <<fvars, bvars>>
    \/ EmbedEnd /\ UNCHANGED <<fvars, bvars>>
    \/ \E key \in EmbedKeys \cup EpisodeKeys \cup ContentKeys : CacheExpire(key)

SpecEmbed == Init /\ [][NextEmbed]_vars

\* the awaits of a running handler settle: every request it makes carries a
\* timeout (30000 ms in fetchPage's client, 5000 and 4000 ms in the handler)
EmbedAwaitSettles ==
    \/ \E resp \in Responses(DetailPages) : DetailHintFetched(resp) /\ UNCHANGED <<svars, evars, fvars, bvars>>
    \/ \E resp \in Responses(DetailPages) : DetailProbeFetched(resp) /\ UNCHANGED <<svars, evars, fvars, bvars>>
    \/ EmbedDetailDone /\ UNCHANGED <<fvars, bvars>>
    \/ \E resp \in Responses(MoviePages) : EmbedMovieFetched(resp) /\ UNCHANGED <<fvars, bvars>>
    \/ \E resp \in Responses(StreamPages) : StreamFirstFetched(resp) /\ UNCHANGED <<dvars, evars, fvars, bvars>>
    \/ \E resp \in Responses(StreamPages) : StreamSecondFetched(resp) /\ UNCHANGED <<dvars, evars, fvars, bvars>>
    \/ \E resp \in Responses(StreamPages) : StreamThirdFetched(resp) /\ UNCHANGED <<dvars, evars, fvars, bvars>>
    \/ EmbedStreamDone /\ UNCHANGED <<fvars, bvars>>
    \/ \E i \in 1..5, resp \in Responses(TrembedPages) : EmbedCandidateFetched(i, resp) /\ UNCHANGED <<fvars, bvars>>

\* requests served one after the other while no cache entry expires
NextEmbedLive ==
    \/ \E id \in EmbedIds, type \in EmbedTypes : EmbedRequest(id, type) /\ UNCHANGED <<fvars, bvars>>
    \/ EmbedAwaitSettles
    \/ EmbedEnd /\ UNCHANGED <<fvars, bvars>>

SpecEmbedLive == Init /\ [][NextEmbedLive]_vars /\ WF_vars(EmbedAwaitSettles)

NextCategory ==
    \/ scrapeCategory
    \/ \E resp \in Responses(ListingDocs) : CategoryFetched(resp)
    \/ ListingReturn
    \/ CacheExpire(CategoryKey)

SpecCategory == Init /\ [][NextCategory]_vars

NextSearch ==
    \/ scrapeSearch
    \/ \E resp \in Responses(ListingDocs) : SearchFetched(resp)
    \/ ListingReturn
    \/ CacheExpire(SearchKey)

SpecSearch == Init /\ [][NextSearch]_vars

NextHome ==
    \/ scrapeHome
    \/ \E resp \in Responses(ListingDocs) : HomeFetched(resp)
    \/ ListingReturn
    \/ CacheExpire(HomeKey)

SpecHome == Init /\ [][NextHome]_vars

InitAnimeId ==
    /\ InitScrapers
    /\ InitBrowser
    /\ input \in Urls
    /\ applied = "none"
    /\ output = Undefined

NextAnimeId == AnimeIdExtracted

SpecAnimeId == InitAnimeId /\ [][NextAnimeId]_vars

InitSxE ==
    /\ InitScrapers
    /\ InitBrowser
    /\ input \in SxEDocs
    /\ applied = "none"
    /\ output = Undefined

NextSxE == SeasonEpisodeParsed

SpecSxE == InitSxE /\ [][NextSxE]_vars

InitBatch ==
    /\ InitScrapers
    /\ InitBrowser
    /\ input \in BatchDocs
    /\ applied = "none"
    /\ output = Undefined

NextBatch ==
    \/ BatchCall
    \/ \E i \in 1..MaxBatch, resp \in BatchResponses : BatchDetailFetched(i, resp)
    \/ BatchReturn
    \/ \E ids \in BatchDocs : BatchAgain(ids)

\* every scrapeAnimeDetails call settles, its requests have a timeout, and a
\* settled Promise.all resumes the call
SpecBatch == InitBatch /\ [][NextBatch]_vars /\ WF_vars(NextBatch)

InitSeasons ==
    /\ InitScrapers
    /\ InitBrowser
    /\ input \in SeasonDocs
    /\ applied = "none"
    /\ output = Undefined

NextSeasons == DetailExtracted

SpecSeasons == InitSeasons /\ [][NextSeasons]_vars

InitPagination ==
    /\ InitScrapers
    /\ InitBrowser
    /\ input \in PaginationDocs
    /\ applied = "none"
    /\ output = Undefined

NextPagination == PaginationExtracted

SpecPagination == InitPagination /\ [][NextPagination]_vars

NextBrowser ==
    \/ \E c \in PageCallers : WithPageCall(c) /\ UNCHANGED <<cache, dvars, svars, evars, fvars>>
    \/ \E c \in PageCallers : CreatePageRetry(c) /\ UNCHANGED <<cache, dvars, svars, evars, fvars>>
    \/ \E c \in CookieCallers : CookiesCall(c) /\ UNCHANGED <<cache, dvars, svars, evars, fvars>>
    \/ \E c \in BrowserCallers : AcquireTimeout(c) /\ UNCHANGED <<cache, dvars, svars, evars, fvars>>
    \/ \E c \in BrowserCallers, ok \in BOOLEAN : ChromiumLaunched(c, ok) /\ UNCHANGED <<cache, dvars, svars, evars, fvars>>
    \/ \E c \in BrowserCallers, ok \in BOOLEAN : NewContextSettled(c, ok) /\ UNCHANGED <<cache, dvars, svars, evars, fvars>>
    \/ \E c \in BrowserCallers, ok \in BOOLEAN : InitPageSettled(c, ok) /\ UNCHANGED <<cache, dvars, svars, evars, fvars>>
    \/ \E c \in BrowserCallers : LaunchReuse(c) /\ UNCHANGED <<cache, dvars, svars, evars, fvars>>
    \/ \E c \in BrowserCallers : LaunchRelaunch(c) /\ UNCHANGED <<cache, dvars, svars, evars, fvars>>
    \/ \E c \in BrowserCallers : RelaunchTimeout(c) /\ UNCHANGED <<cache, dvars, svars, evars, fvars>>
    \/ \E c \in PageCallers : NewPage(c) /\ UNCHANGED <<cache, dvars, svars, evars, fvars>>
    \/ \E c \in PageCallers : PageDone(c) /\ UNCHANGED <<cache, dvars, svars, evars, fvars>>
    \/ \E c \in PageCallers : PageClosed(c) /\ UNCHANGED <<cache, dvars, svars, evars, fvars>>
    \/ \E c \in CookieCallers : CookiesSettled(c) /\ UNCHANGED <<cache, dvars, svars, evars, fvars>>
    \/ \E c \in CloseCallers : CloseCall(c) /\ UNCHANGED <<cache, dvars, svars, evars, fvars>>
    \/ \E c \in ShutdownCallers : closeBrowser(c) /\ UNCHANGED <<cache, dvars, svars, evars, fvars>>
    \/ \E c \in BrowserCallers : CloseContextSettled(c) /\ UNCHANGED <<cache, dvars, svars, evars, fvars>>
    \/ \E c \in BrowserCallers : CloseBrowserSettled(c) /\ UNCHANGED <<cache, dvars, svars, evars, fvars>>
    \/ \E c \in BrowserCallers, ok \in BOOLEAN : DetachedSettles(c, ok) /\ UNCHANGED <<cache, dvars, svars, evars, fvars>>
    \/ BrowserDisconnects /\ UNCHANGED <<cache, dvars, svars, evars, fvars>>

SpecBrowser == Init /\ [][NextBrowser]_vars

====
